---- MODULE Spec2Model ----
(***************************************************************************)
(* Model of the Fleet REST client of go-utils.                             *)
(*                                                                         *)
(* The repository carries two revisions of package fleet:                  *)
(*   src/unnamed/part_002  the revision whose operations return errors,    *)
(*   src/fleet/fleet.go    the revision that calls log.Fatal on failures.  *)
(* The variable lib says which revision the caller is linked against.      *)
(*                                                                         *)
(* One behaviour is one call of one operation.  A step is one HTTP         *)
(* exchange (request issued, response received) together with all the      *)
(* code that runs until the next request is issued or the call returns.    *)
(* The Fleet service is the environment: every response is chosen          *)
(* nondeterministically among the responses a server can give.             *)
(*                                                                         *)
(* Strings that the code inspects (unit names) are sequences of            *)
(* one-character strings.  A Go nil slice is the empty sequence: the code  *)
(* only ever builds slices with append, so a slice of length 0 is nil.     *)
(***************************************************************************)
EXTENDS Integers, Sequences, FiniteSets, TLC

VARIABLES
    lib,            \* revision of the package: "part_002" or "fleet.go"
    op,             \* operation the caller invoked
    arg,            \* the name argument of the operation
    pc,             \* position of the call
    units,          \* named result / accumulator of ListUnits
    unitStates,     \* named result / accumulator of ListUnitStates
    machines,       \* named result / accumulator of ListMachines
    nextPageToken,  \* local nextPageToken of the running paginated fetch
    hist,           \* history: every exchange (url, response) so far
    calls,          \* history: the fetches and single-request calls that returned
    ret,            \* what the call returned
    port,           \* package variable port
    apiVersion,     \* package variable apiVersion
    server,         \* concurrent calls: the answer of the service to each request
    procs,          \* concurrent calls: operation, position and result of each caller
    frames,         \* concurrent calls: the named results and locals of each call
    stack           \* package docker: the running invocations of RemoveImage, outermost first

\* the package variables and the state of the concurrent callers
conc == <<port, apiVersion, server, procs, frames>>

vars == <<lib, op, arg, pc, units, unitStates, machines, nextPageToken, hist, calls, ret, conc, stack>>

----------------------------------------------------------------------------
(* Bounds *)

MaxPages == 3        \* a server chain has at most this many pages
MaxPageLen == 2      \* items per page served to ListUnits/ListUnitStates/ListMachines
ByNamePages == 2     \* pages served to ListUnitsByName, ListUnitStatesByName
ByNamePageLen == 2   \* items per page served to ListUnitsByName, ListUnitStatesByName
SnapPageLen == 1     \* items per page served to GetStateOfFleet
MaxCalls == 2        \* calls of GetUnit in a row
NProcs == 2          \* concurrent callers
\* exchanges the history keeps; more than any call issues against a
\* service whose page chains end
MaxHist == 3 * MaxPages + MaxCalls + 2 * NProcs + 1
MaxDepth == 3        \* nested invocations of RemoveImage

----------------------------------------------------------------------------
(* Strings *)

web == <<"w","e","b">>
db == <<"d","b">>
webTemplate == <<"w","e","b","@",".","t","e","m","p","l","a","t","e">>
webService == <<"w","e","b","@",".","s","e","r","v","i","c","e">>
web1 == <<"w","e","b","@","1">>
web2 == <<"w","e","b","@","2">>
webAB == <<"w","e","b","@","a","@",".","b">>
db1 == <<"d","b","@","1">>

\* strings.HasPrefix
HasPrefix(s, prefix) ==
    Len(s) >= Len(prefix) /\ SubSeq(s, 1, Len(prefix)) = prefix

\* strings.Contains
Contains(s, substr) ==
    \E i \in 1..(Len(s) - Len(substr) + 1) : SubSeq(s, i, i + Len(substr) - 1) = substr

\* fmt.Sprintf("%s@", name)
SprintfAt(name) == name \o <<"@">>

----------------------------------------------------------------------------
(* Records *)

\* Unit: the code reads only Name; the other fields are carried along.
Unit(name) == [Name |-> name]
ZeroUnit == Unit(<<>>)

Nil == [kind |-> "nil", code |-> 0, msg |-> ""]
ErrTransport == [kind |-> "transport", code |-> 0, msg |-> ""]
ErrRead == [kind |-> "read", code |-> 0, msg |-> ""]
ErrDecode == [kind |-> "decode", code |-> 0, msg |-> ""]

\* fmt.Errorf("%d: %s", errorResponse.Error.Code, errorResponse.Error.Message)
RemoteError(code, message) == [kind |-> "remote", code |-> code, msg |-> message]

NoValue == [template |-> ZeroUnit, units |-> <<>>, unitStates |-> <<>>,
            machines |-> <<>>, unit |-> ZeroUnit, err |-> Nil]

ListOps == {"ListUnits", "ListUnitStates", "ListMachines"}
ByNameOps == {"ListUnitsByName", "ListUnitStatesByName"}
CreateOps == {"CreateUnit"}
ModifyOps == {"Unit.ModifyDesiredState", "UnitState.ModifyDesiredState", "ModifyUnitDesiredState"}
DestroyOps == {"Unit.Destroy", "UnitState.Destroy", "DestroyUnit"}
\* the operations that issue one request to /units/{name}
UnitOps == CreateOps \cup ModifyOps \cup DestroyOps \cup {"GetUnit"}
Libs == {"part_002", "fleet.go"}

----------------------------------------------------------------------------
(* The Fleet service (environment) *)

UnitState(name, machineID) == [Name |-> name, MachineID |-> machineID]
Machine(id) == [ID |-> id]

SeqsUpTo(S, n) == UNION {[1..k -> S] : k \in 0..n}

\* the records a server may put on a page of the endpoint ep
ItemSet(o, ep) ==
    IF o = "ListUnitsByName"
    THEN {Unit(webTemplate), Unit(webService), Unit(web1), Unit(web2), Unit(webAB), Unit(db1)}
    ELSE IF o = "ListUnitStatesByName"
    THEN {UnitState(web1, "m1"), UnitState(web1, "m2"), UnitState(webTemplate, "m1"),
          UnitState(db1, "m1")}
    ELSE IF o = "GetStateOfFleet"
    THEN (CASE ep = "units" -> {Unit(web1)}
            [] ep = "state" -> {UnitState(web1, "m1")}
            [] ep = "machines" -> {Machine("m1")})
    ELSE (CASE ep = "units" -> {Unit(web1), Unit(db1)}
            [] ep = "state" -> {UnitState(web1, "m1"), UnitState(web1, "m2")}
            [] ep = "machines" -> {Machine("m1"), Machine("m2")})

PageLen(o) ==
    IF o \in ByNameOps THEN ByNamePageLen
    ELSE IF o = "GetStateOfFleet" THEN SnapPageLen ELSE MaxPageLen

PageItems(o, ep) == SeqsUpTo(ItemSet(o, ep), PageLen(o))

\* non-empty continuation tokens the server hands out
Tokens(o) == IF o \in ListOps THEN {"t1", "t2"} ELSE {"t1"}

\* longest page chain the server serves to one fetch
Cap(o) == IF o \in ByNameOps THEN ByNamePages ELSE MaxPages

\* A response.  conn = "fail": the request failed in transport.  read =
\* "fail": reading the body failed.  kind is the shape of the body:
\*   "page"      valid JSON of the page shape {nextPageToken, items}
\*   "syntax"    not valid JSON
\*   "badToken"  valid JSON whose nextPageToken is not a string
\*   "badItems"  valid JSON whose item list is not a list
\*   "envelope"  the error envelope {"error": {code, message}}
Response(conn, status, read, kind, tok, items, code, msg) ==
    [conn |-> conn, status |-> status, read |-> read, kind |-> kind,
     tok |-> tok, items |-> items, code |-> code, msg |-> msg]

TransportFailure == Response("fail", 0, "ok", "none", "", <<>>, 0, "")
ReadFailure == Response("ok", 200, "fail", "none", "", <<>>, 0, "")
SyntaxBody == Response("ok", 200, "ok", "syntax", "", <<>>, 0, "")
EnvelopeBody(status) == Response("ok", status, "ok", "envelope", "", <<>>, status, "boom")
PageBody(tok, items) == Response("ok", 200, "ok", "page", tok, items, 0, "")
BadTokenBody(items) == Response("ok", 200, "ok", "badToken", "", items, 0, "")
BadItemsBody(tok) == Response("ok", 200, "ok", "badItems", tok, <<>>, 0, "")

\* requests already issued to the endpoint ep
Requests(ep) == SelectSeq(hist, LAMBDA x : x.ep = ep)

\* the tokens of a service that pages by a fixed chain: c[t] is the token
\* on the page it answers to the request carrying t, c[""] the one on the
\* first page
ChainTokens == {"", "t1", "t2"}
Chains == [ChainTokens -> ChainTokens]
NoChain == [t \in ChainTokens |-> ""]

\* the chain c reaches the empty token
Ends(c) == c[""] = "" \/ c[c[""]] = "" \/ c[c[c[""]]] = ""

\* the page a service paging by the chain c answers to the request for tok
\* to ep; a chain that never ends is served with empty pages
ChainPage(c, ep, tok) ==
    PageBody(c[tok],
             IF ~Ends(c) THEN <<>>
             ELSE CASE ep = "units" -> <<Unit(web1)>>
                    [] ep = "state" -> <<UnitState(web1, "m1")>>
                    [] ep = "machines" -> <<Machine("m1")>>)

\* what the server may answer to the next request to ep.  A service of
\* mode "chain" answers every request with the page of its chain; any
\* other service answers as it likes, and the page that completes the
\* longest chain carries the empty token
Responses(ep) ==
    IF server.mode = "chain" THEN {ChainPage(server.chain, ep, nextPageToken)}
    ELSE
    LET toks == IF Len(Requests(ep)) + 1 >= Cap(op) THEN {""} ELSE Tokens(op) \cup {""}
    IN  {TransportFailure, ReadFailure, SyntaxBody, EnvelopeBody(500)}
        \cup {PageBody(t, is) : t \in toks, is \in PageItems(op, ep)}
        \cup {BadTokenBody(is) : is \in PageItems(op, ep)}
        \cup {BadItemsBody(t) : t \in toks}

\* fmt.Sprintf("http://%s:%d/fleet/%s/<endpoint>", host, port, apiVersion)
url(ep) == [ep |-> ep, tok |-> ""]

\* mutant of nextPageURL: the token of the first page is sent again
nextPageURL_firstToken(u, tok) ==
    [ep |-> u.ep,
     tok |-> LET R == Requests(u.ep) IN IF R = <<>> THEN tok ELSE R[1].resp.tok]

\* fmt.Sprintf("%s?nextPageToken=%s", url, nextPageToken)
nextPageURL(u, tok) == [ep |-> u.ep, tok |-> tok]

\* the exchange recorded in hist: the URL requested and the response
Exchange(u, r) == [ep |-> u.ep, tok |-> u.tok, resp |-> r]

\* the history h with the exchange x; a history of MaxHist exchanges is full
Log(h, x) == IF Len(h) < MaxHist THEN Append(h, x) ELSE h

\* fmt.Sprintf("http://%s:%d/fleet/%s/units/%s", host, port, apiVersion, name)
\* host and name are taken to form a valid URL
unitURL == [ep |-> "units/{name}", tok |-> ""]

\* Bodies of the responses to a request to /units/{name}:
\*   "envelope"     {"error": {"code": code, "message": msg}}
\*   "badEnvelope"  an envelope whose code is not a number
\*   "otherJSON"    a JSON object with none of the members the code reads
\*   "unit"         a Unit (carried in items)
\*   "badUnit"      a Unit with a member of the wrong type; items carries
\*                  what the other members decode to
\*   "syntax"       not valid JSON (an empty body is)
ErrorBody(status, code, msg) == Response("ok", status, "ok", "envelope", "", <<>>, code, msg)
BadEnvelopeBody(status) == Response("ok", status, "ok", "badEnvelope", "", <<>>, 0, "boom")
OtherJSONBody(status) == Response("ok", status, "ok", "otherJSON", "", <<>>, 0, "")
UnitBody(status, unit) == Response("ok", status, "ok", "unit", "", <<unit>>, 0, "")
BadUnitBody(status, partial) == Response("ok", status, "ok", "badUnit", "", <<partial>>, 0, "")
NoJSONBody(status) == Response("ok", status, "ok", "syntax", "", <<>>, 0, "")
UnreadableBody(status) == Response("ok", status, "fail", "none", "", <<>>, 0, "")

\* the statuses the service answers with
Statuses == {200, 201, 204, 400, 404, 409, 500}

\* what the server may answer to a request to /units/{name}
UnitResponses ==
    {TransportFailure}
    \cup {ErrorBody(st, c, m) : st \in Statuses, c \in {0, 409}, m \in {"", "boom"}}
    \cup {BadEnvelopeBody(st) : st \in Statuses}
    \cup {OtherJSONBody(st) : st \in Statuses}
    \cup {UnitBody(st, Unit(web1)) : st \in Statuses}
    \cup {BadUnitBody(st, p) : st \in Statuses, p \in {Unit(web1), ZeroUnit}}
    \cup {NoJSONBody(st) : st \in Statuses}
    \cup {UnreadableBody(st) : st \in Statuses}

----------------------------------------------------------------------------
(* Transport and decoding *)

\* part_002: http.Get(url), the error handed to the caller
httpGetResponse(r) ==
    [response |-> r, err |-> IF r.conn = "fail" THEN ErrTransport ELSE Nil]

\* ioutil.ReadAll(response.Body)
ReadAll(r) ==
    [bytes |-> r, err |-> IF r.read = "fail" THEN ErrRead ELSE Nil]

\* json.Unmarshal(jsonBytes, &page) into UnitsResponse, UnitStateResponse
\* or MachinesResponse (a fresh zero value).  Invalid JSON is rejected
\* before anything is stored; a field of the wrong type is skipped, the
\* other fields are stored and the type error is returned; fields the
\* struct does not have (the error envelope) are ignored without error.
Unmarshal(body) ==
    CASE body.kind = "page" ->
            [err |-> Nil, NextPageToken |-> body.tok, Items |-> body.items]
      [] body.kind = "badToken" ->
            [err |-> ErrDecode, NextPageToken |-> "", Items |-> body.items]
      [] body.kind = "badItems" ->
            [err |-> ErrDecode, NextPageToken |-> body.tok, Items |-> <<>>]
      [] body.kind = "envelope" ->
            [err |-> Nil, NextPageToken |-> "", Items |-> <<>>]
      [] OTHER ->
            [err |-> ErrDecode, NextPageToken |-> "", Items |-> <<>>]

\* mutant of append: the page is put in front of the accumulator
append_prepend(slice, items) == items \o slice

\* append(slice, page.Items...)
append(slice, items) == slice \o items

\* part_002: client.Do of the PUT request, the error handed to the caller
httpPutResponse(r) ==
    [response |-> r, err |-> IF r.conn = "fail" THEN ErrTransport ELSE Nil]

\* part_002: client.Do of the DELETE request, the error handed to the caller
httpDeleteResponse(r) ==
    [response |-> r, err |-> IF r.conn = "fail" THEN ErrTransport ELSE Nil]

\* fleet.go: client.Do of the PUT request; an error ends the process
fleet_httpPutResponse(r) ==
    [response |-> r, fatal |-> r.conn = "fail"]

\* fleet.go: client.Do of the DELETE request; an error ends the process
fleet_httpDeleteResponse(r) ==
    [response |-> r, fatal |-> r.conn = "fail"]

\* json.Unmarshal(errorBytes, &errorResponse) into ErrorResponse: only the
\* member "error" is read; a body without it leaves the zero value
UnmarshalError(body) ==
    CASE body.kind = "envelope" ->
            [err |-> Nil, Code |-> body.code, Message |-> body.msg]
      [] body.kind = "badEnvelope" ->
            [err |-> ErrDecode, Code |-> 0, Message |-> body.msg]
      [] body.kind \in {"otherJSON", "unit", "badUnit", "page"} ->
            [err |-> Nil, Code |-> 0, Message |-> ""]
      [] OTHER ->
            [err |-> ErrDecode, Code |-> 0, Message |-> ""]

\* json.Unmarshal(jsonBytes, &unit) into the zero Unit
UnmarshalUnit(body) ==
    CASE body.kind = "unit" -> [err |-> Nil, unit |-> body.items[1]]
      [] body.kind = "badUnit" -> [err |-> ErrDecode, unit |-> body.items[1]]
      [] body.kind \in {"otherJSON", "envelope", "badEnvelope", "page"} ->
            [err |-> Nil, unit |-> ZeroUnit]
      [] OTHER -> [err |-> ErrDecode, unit |-> ZeroUnit]

\* the text of the error made by fmt.Errorf("%d: %s", code, message)
Error(e) == ToString(e.code) \o ": " \o e.msg

\* mutant of handleError: code and message are read at the top level of
\* the body instead of under "error"
handleError_flat(body) ==
    LET errorBytes == ReadAll(body)
        errorResponse == UnmarshalError(errorBytes.bytes)
    IN  IF errorBytes.err # Nil THEN errorBytes.err
        ELSE IF errorResponse.err # Nil THEN errorResponse.err
        ELSE RemoteError(0, "")

\* part_002: handleError(response.Body)
handleError(body) ==
    LET errorBytes == ReadAll(body)
        errorResponse == UnmarshalError(errorBytes.bytes)
    IN  IF errorBytes.err # Nil THEN errorBytes.err
        ELSE IF errorResponse.err # Nil THEN errorResponse.err
        ELSE RemoteError(errorResponse.Code, errorResponse.Message)

\* fleet.go: handleError(response.Body); a body that cannot be read or
\* decoded ends the process
fleet_handleError(body) ==
    LET errorBytes == ReadAll(body)
        errorResponse == UnmarshalError(errorBytes.bytes)
    IN  [fatal |-> errorBytes.err # Nil \/ errorResponse.err # Nil,
         err |-> RemoteError(errorResponse.Code, errorResponse.Message)]

\* fleet.go: http.Get(url); a transport error ends the process (log.Fatal)
fleet_httpGetResponse(r) ==
    [response |-> r, fatal |-> r.conn = "fail"]

\* log.Fatal(err): the process exits inside the call; nothing is returned
Fatal ==
    /\ pc' = "aborted"
    /\ UNCHANGED <<units, unitStates, machines, nextPageToken, calls, ret>>

----------------------------------------------------------------------------
(* Correlation *)

\* mutant of rangeAllUnits: the template is appended to the instances too
RECURSIVE rangeAllUnits_templateKept(_, _, _, _)
rangeAllUnits_templateKept(allUnits, name, template, us) ==
    IF allUnits = <<>> THEN [template |-> template, units |-> us]
    ELSE LET unit == Head(allUnits)
         IN  IF HasPrefix(unit.Name, SprintfAt(name))
             THEN IF Contains(unit.Name, <<"@", ".">>)
                  THEN rangeAllUnits_templateKept(Tail(allUnits), name, unit, Append(us, unit))
                  ELSE rangeAllUnits_templateKept(Tail(allUnits), name, template, Append(us, unit))
             ELSE rangeAllUnits_templateKept(Tail(allUnits), name, template, us)

\* mutant of rangeAllUnits: the first template found is kept
RECURSIVE rangeAllUnits_firstTemplate(_, _, _, _)
rangeAllUnits_firstTemplate(allUnits, name, template, us) ==
    IF allUnits = <<>> THEN [template |-> template, units |-> us]
    ELSE LET unit == Head(allUnits)
         IN  IF HasPrefix(unit.Name, SprintfAt(name))
             THEN IF Contains(unit.Name, <<"@", ".">>)
                  THEN rangeAllUnits_firstTemplate(Tail(allUnits), name,
                           IF template = ZeroUnit THEN unit ELSE template, us)
                  ELSE rangeAllUnits_firstTemplate(Tail(allUnits), name, template, Append(us, unit))
             ELSE rangeAllUnits_firstTemplate(Tail(allUnits), name, template, us)

\* the loop "for _, unit := range allUnits" of ListUnitsByName, from the
\* values template and us of the named results before the remaining
\* elements allUnits are visited  (fleet.go 128-136 is the same text)
RECURSIVE rangeAllUnits(_, _, _, _)
rangeAllUnits(allUnits, name, template, us) ==
    IF allUnits = <<>> THEN [template |-> template, units |-> us]
    ELSE LET unit == Head(allUnits)
         IN  IF HasPrefix(unit.Name, SprintfAt(name))
             THEN IF Contains(unit.Name, <<"@", ".">>)
                  THEN rangeAllUnits(Tail(allUnits), name, unit, us)
                  ELSE rangeAllUnits(Tail(allUnits), name, template, Append(us, unit))
             ELSE rangeAllUnits(Tail(allUnits), name, template, us)

\* mutant of ListUnitsByName: a base name without any unit is an error
ListUnitsByName_notFound(allUnits, err, name) ==
    IF err # Nil
    THEN [NoValue EXCEPT !.err = err]
    ELSE LET c == rangeAllUnits(allUnits, name, ZeroUnit, <<>>)
         IN  IF c.template = ZeroUnit /\ c.units = <<>>
             THEN [NoValue EXCEPT !.err = RemoteError(404, "not found")]
             ELSE [NoValue EXCEPT !.template = c.template, !.units = c.units, !.err = err]

\* part_002: ListUnitsByName after ListUnits returned (allUnits, err)
ListUnitsByName(allUnits, err, name) ==
    IF err # Nil
    THEN [NoValue EXCEPT !.err = err]
    ELSE LET c == rangeAllUnits(allUnits, name, ZeroUnit, <<>>)
         IN  [NoValue EXCEPT !.template = c.template, !.units = c.units, !.err = err]

\* fleet.go: ListUnitsByName after ListUnits returned allUnits
fleet_ListUnitsByName(allUnits, name) ==
    LET c == rangeAllUnits(allUnits, name, ZeroUnit, <<>>)
    IN  [NoValue EXCEPT !.template = c.template, !.units = c.units]

\* mutant of rangeAllUnitStates: records of template names are left out
RECURSIVE rangeAllUnitStates_noTemplates(_, _, _)
rangeAllUnitStates_noTemplates(allUnitStates, name, us) ==
    IF allUnitStates = <<>> THEN us
    ELSE LET unitState == Head(allUnitStates)
         IN  IF HasPrefix(unitState.Name, SprintfAt(name))
                /\ ~Contains(unitState.Name, <<"@", ".">>)
             THEN rangeAllUnitStates_noTemplates(Tail(allUnitStates), name, Append(us, unitState))
             ELSE rangeAllUnitStates_noTemplates(Tail(allUnitStates), name, us)

\* the loop "for _, unitState := range allUnitStates" of
\* ListUnitStatesByName, from the value us of the named result before the
\* remaining elements are visited  (fleet.go 255-259 is the same text)
RECURSIVE rangeAllUnitStates(_, _, _)
rangeAllUnitStates(allUnitStates, name, us) ==
    IF allUnitStates = <<>> THEN us
    ELSE LET unitState == Head(allUnitStates)
         IN  IF HasPrefix(unitState.Name, SprintfAt(name))
             THEN rangeAllUnitStates(Tail(allUnitStates), name, Append(us, unitState))
             ELSE rangeAllUnitStates(Tail(allUnitStates), name, us)

\* part_002: ListUnitStatesByName after ListUnitStates returned
\* (allUnitStates, err)
ListUnitStatesByName(allUnitStates, err, name) ==
    IF err # Nil
    THEN [NoValue EXCEPT !.err = err]
    ELSE [NoValue EXCEPT !.unitStates = rangeAllUnitStates(allUnitStates, name, <<>>),
                         !.err = err]

\* fleet.go: ListUnitStatesByName after ListUnitStates returned allUnitStates
fleet_ListUnitStatesByName(allUnitStates, name) ==
    [NoValue EXCEPT !.unitStates = rangeAllUnitStates(allUnitStates, name, <<>>)]

----------------------------------------------------------------------------
(* Returns of the paginated fetches into their callers *)

\* the entry of calls for a fetch fn that returned the error e
Returned(fn, e) == [fn |-> fn, err |-> e]

\* the call returns v to the caller of the package
Done(v) ==
    /\ pc' = "done"
    /\ ret' = v

\* mutant of GetStateOfFleet_units: the error of ListUnits is not checked
GetStateOfFleet_units_unchecked(u, e) ==
    /\ pc' = "ListUnitStates"
    /\ units' = u
    /\ UNCHANGED <<unitStates, machines, ret>>

\* part_002 GetStateOfFleet: units, err = ListUnits(host) and its check
GetStateOfFleet_units(u, e) ==
    IF e # Nil
    THEN /\ Done([NoValue EXCEPT !.err = e])
         /\ units' = <<>> /\ unitStates' = <<>> /\ machines' = <<>>
    ELSE /\ pc' = "ListUnitStates"
         /\ units' = u
         /\ UNCHANGED <<unitStates, machines, ret>>

\* part_002 GetStateOfFleet: unitStates, err = ListUnitStates(host) and its check
GetStateOfFleet_unitStates(s, e) ==
    IF e # Nil
    THEN /\ Done([NoValue EXCEPT !.err = e])
         /\ units' = <<>> /\ unitStates' = <<>> /\ machines' = <<>>
    ELSE /\ pc' = "ListMachines"
         /\ unitStates' = s
         /\ UNCHANGED <<units, machines, ret>>

\* part_002 GetStateOfFleet: machines, err = ListMachines(host), its check
\* and the final return
GetStateOfFleet_machines(m, e) ==
    IF e # Nil
    THEN /\ Done([NoValue EXCEPT !.err = e])
         /\ units' = <<>> /\ unitStates' = <<>> /\ machines' = <<>>
    ELSE /\ Done([NoValue EXCEPT !.units = units, !.unitStates = unitStates,
                                 !.machines = m, !.err = e])
         /\ machines' = m
         /\ UNCHANGED <<units, unitStates>>

\* part_002: ListUnits returns (u, e) to its caller
ListUnits_return(u, e) ==
    /\ nextPageToken' = ""
    /\ calls' = Append(calls, Returned("ListUnits", e))
    /\ CASE op = "ListUnits" ->
              /\ Done([NoValue EXCEPT !.units = u, !.err = e])
              /\ units' = u /\ UNCHANGED <<unitStates, machines>>
         [] op = "ListUnitsByName" ->
              /\ Done(ListUnitsByName(u, e, arg))
              /\ units' = u /\ UNCHANGED <<unitStates, machines>>
         [] op = "GetStateOfFleet" -> GetStateOfFleet_units(u, e)

\* part_002: ListUnitStates returns (s, e) to its caller
ListUnitStates_return(s, e) ==
    /\ nextPageToken' = ""
    /\ calls' = Append(calls, Returned("ListUnitStates", e))
    /\ CASE op = "ListUnitStates" ->
              /\ Done([NoValue EXCEPT !.unitStates = s, !.err = e])
              /\ unitStates' = s /\ UNCHANGED <<units, machines>>
         [] op = "ListUnitStatesByName" ->
              /\ Done(ListUnitStatesByName(s, e, arg))
              /\ unitStates' = s /\ UNCHANGED <<units, machines>>
         [] op = "GetStateOfFleet" -> GetStateOfFleet_unitStates(s, e)

\* part_002: ListMachines returns (m, e) to its caller
ListMachines_return(m, e) ==
    /\ nextPageToken' = ""
    /\ calls' = Append(calls, Returned("ListMachines", e))
    /\ CASE op = "ListMachines" ->
              /\ Done([NoValue EXCEPT !.machines = m, !.err = e])
              /\ machines' = m /\ UNCHANGED <<units, unitStates>>
         [] op = "GetStateOfFleet" -> GetStateOfFleet_machines(m, e)

\* fleet.go GetStateOfFleet: return ListUnits(host), ListUnitStates(host),
\* ListMachines(host); the three calls are evaluated left to right.
\* stage is the call that returned v
fleet_GetStateOfFleet(stage, v) ==
    CASE stage = "ListUnits" ->
           /\ pc' = "ListUnitStates" /\ units' = v
           /\ UNCHANGED <<unitStates, machines, ret>>
      [] stage = "ListUnitStates" ->
           /\ pc' = "ListMachines" /\ unitStates' = v
           /\ UNCHANGED <<units, machines, ret>>
      [] stage = "ListMachines" ->
           /\ Done([NoValue EXCEPT !.units = units, !.unitStates = unitStates,
                                   !.machines = v])
           /\ machines' = v
           /\ UNCHANGED <<units, unitStates>>

\* fleet.go: ListUnits returns u to its caller
fleet_ListUnits_return(u) ==
    /\ nextPageToken' = ""
    /\ calls' = Append(calls, Returned("ListUnits", Nil))
    /\ CASE op = "ListUnits" ->
              /\ Done([NoValue EXCEPT !.units = u])
              /\ units' = u /\ UNCHANGED <<unitStates, machines>>
         [] op = "ListUnitsByName" ->
              /\ Done(fleet_ListUnitsByName(u, arg))
              /\ units' = u /\ UNCHANGED <<unitStates, machines>>
         [] op = "GetStateOfFleet" -> fleet_GetStateOfFleet("ListUnits", u)

\* fleet.go: ListUnitStates returns s to its caller
fleet_ListUnitStates_return(s) ==
    /\ nextPageToken' = ""
    /\ calls' = Append(calls, Returned("ListUnitStates", Nil))
    /\ CASE op = "ListUnitStates" ->
              /\ Done([NoValue EXCEPT !.unitStates = s])
              /\ unitStates' = s /\ UNCHANGED <<units, machines>>
         [] op = "ListUnitStatesByName" ->
              /\ Done(fleet_ListUnitStatesByName(s, arg))
              /\ unitStates' = s /\ UNCHANGED <<units, machines>>
         [] op = "GetStateOfFleet" -> fleet_GetStateOfFleet("ListUnitStates", s)

\* fleet.go: ListMachines returns m to its caller
fleet_ListMachines_return(m) ==
    /\ nextPageToken' = ""
    /\ calls' = Append(calls, Returned("ListMachines", Nil))
    /\ CASE op = "ListMachines" ->
              /\ Done([NoValue EXCEPT !.machines = m])
              /\ machines' = m /\ UNCHANGED <<units, unitStates>>
         [] op = "GetStateOfFleet" -> fleet_GetStateOfFleet("ListMachines", m)

\* units = append(...); nextPageToken = ...: the loop of ListUnits goes on
ListUnits_continue(acc, tok) ==
    /\ pc' = "ListUnits_loop"
    /\ units' = acc /\ nextPageToken' = tok
    /\ UNCHANGED <<unitStates, machines, calls, ret>>

\* unitStates = append(...); nextPageToken = ...: the loop of ListUnitStates goes on
ListUnitStates_continue(acc, tok) ==
    /\ pc' = "ListUnitStates_loop"
    /\ unitStates' = acc /\ nextPageToken' = tok
    /\ UNCHANGED <<units, machines, calls, ret>>

\* machines = append(...); nextPageToken = ...: the loop of ListMachines goes on
ListMachines_continue(acc, tok) ==
    /\ pc' = "ListMachines_loop"
    /\ machines' = acc /\ nextPageToken' = tok
    /\ UNCHANGED <<units, unitStates, calls, ret>>

----------------------------------------------------------------------------
(* The paginated fetches *)

\* src/unnamed/part_002 86-107: ListUnits up to the loop: the first page
ListUnits_firstPage ==
    /\ lib = "part_002" /\ pc = "ListUnits"
    /\ \E r \in Responses("units") :
         LET response == httpGetResponse(r)
             jsonBytes == ReadAll(r)
             fleetResponse == Unmarshal(jsonBytes.bytes)
             acc == append(units, fleetResponse.Items)
         IN  /\ hist' = Log(hist, Exchange(url("units"), r))
             /\ IF response.err # Nil THEN ListUnits_return(<<>>, response.err)
                ELSE IF jsonBytes.err # Nil THEN ListUnits_return(<<>>, jsonBytes.err)
                ELSE IF fleetResponse.err # Nil THEN ListUnits_return(<<>>, fleetResponse.err)
                ELSE IF fleetResponse.NextPageToken = "" THEN ListUnits_return(acc, Nil)
                ELSE ListUnits_continue(acc, fleetResponse.NextPageToken)
    /\ UNCHANGED <<lib, op, arg, conc, stack>>

\* mutant of ListUnits_nextPage: after a transport error the same page is
\* requested again
ListUnits_nextPage_retry ==
    /\ lib = "part_002" /\ pc = "ListUnits_loop"
    /\ \E r \in Responses("units") :
         LET resp == httpGetResponse(r)
             jsonContent == ReadAll(r)
             nextPageFleetResponse == Unmarshal(jsonContent.bytes)
             acc == append(units, nextPageFleetResponse.Items)
         IN  /\ hist' = Log(hist, Exchange(nextPageURL(url("units"), nextPageToken), r))
             /\ IF resp.err # Nil THEN ListUnits_continue(units, nextPageToken)
                ELSE IF jsonContent.err # Nil THEN ListUnits_return(<<>>, jsonContent.err)
                ELSE IF nextPageFleetResponse.NextPageToken = "" THEN ListUnits_return(acc, Nil)
                ELSE ListUnits_continue(acc, nextPageFleetResponse.NextPageToken)
    /\ UNCHANGED <<lib, op, arg, conc, stack>>

\* src/unnamed/part_002 108-129: one iteration of the loop of ListUnits, and its return
ListUnits_nextPage ==
    /\ lib = "part_002" /\ pc = "ListUnits_loop"
    /\ \E r \in Responses("units") :
         LET resp == httpGetResponse(r)
             jsonContent == ReadAll(r)
             nextPageFleetResponse == Unmarshal(jsonContent.bytes)
             acc == append(units, nextPageFleetResponse.Items)
         IN  /\ hist' = Log(hist, Exchange(nextPageURL(url("units"), nextPageToken), r))
             /\ IF resp.err # Nil THEN ListUnits_return(<<>>, resp.err)
                ELSE IF jsonContent.err # Nil THEN ListUnits_return(<<>>, jsonContent.err)
                \* the error of json.Unmarshal is assigned and never looked at
                ELSE IF nextPageFleetResponse.NextPageToken = "" THEN ListUnits_return(acc, Nil)
                ELSE ListUnits_continue(acc, nextPageFleetResponse.NextPageToken)
    /\ UNCHANGED <<lib, op, arg, conc, stack>>

\* src/unnamed/part_002 272-293: ListUnitStates up to the loop: the first page
ListUnitStates_firstPage ==
    /\ lib = "part_002" /\ pc = "ListUnitStates"
    /\ \E r \in Responses("state") :
         LET response == httpGetResponse(r)
             jsonBytes == ReadAll(r)
             fleetStateResponse == Unmarshal(jsonBytes.bytes)
             acc == append(unitStates, fleetStateResponse.Items)
         IN  /\ hist' = Log(hist, Exchange(url("state"), r))
             /\ IF response.err # Nil THEN ListUnitStates_return(<<>>, response.err)
                ELSE IF jsonBytes.err # Nil THEN Fatal
                ELSE IF fleetStateResponse.err # Nil THEN Fatal
                ELSE IF fleetStateResponse.NextPageToken = "" THEN ListUnitStates_return(acc, Nil)
                ELSE ListUnitStates_continue(acc, fleetStateResponse.NextPageToken)
    /\ UNCHANGED <<lib, op, arg, conc, stack>>

\* src/unnamed/part_002 294-318: one iteration of the loop of ListUnitStates, and its return
ListUnitStates_nextPage ==
    /\ lib = "part_002" /\ pc = "ListUnitStates_loop"
    /\ \E r \in Responses("state") :
         LET resp == httpGetResponse(r)
             jsonContent == ReadAll(r)
             nextPageFleetStateResponse == Unmarshal(jsonContent.bytes)
             acc == append(unitStates, nextPageFleetStateResponse.Items)
         IN  /\ hist' = Log(hist, Exchange(nextPageURL(url("state"), nextPageToken), r))
             /\ IF resp.err # Nil THEN ListUnitStates_return(<<>>, resp.err)
                ELSE IF jsonContent.err # Nil THEN ListUnitStates_return(<<>>, jsonContent.err)
                ELSE IF nextPageFleetStateResponse.err # Nil THEN ListUnitStates_return(<<>>, nextPageFleetStateResponse.err)
                ELSE IF nextPageFleetStateResponse.NextPageToken = "" THEN ListUnitStates_return(acc, Nil)
                ELSE ListUnitStates_continue(acc, nextPageFleetStateResponse.NextPageToken)
    /\ UNCHANGED <<lib, op, arg, conc, stack>>

\* src/unnamed/part_002 381-402: ListMachines up to the loop: the first page
ListMachines_firstPage ==
    /\ lib = "part_002" /\ pc = "ListMachines"
    /\ \E r \in Responses("machines") :
         LET response == httpGetResponse(r)
             jsonBytes == ReadAll(r)
             fleetMachinesResponse == Unmarshal(jsonBytes.bytes)
             acc == append(machines, fleetMachinesResponse.Items)
         IN  /\ hist' = Log(hist, Exchange(url("machines"), r))
             /\ IF response.err # Nil THEN ListMachines_return(<<>>, response.err)
                ELSE IF jsonBytes.err # Nil THEN ListMachines_return(<<>>, jsonBytes.err)
                ELSE IF fleetMachinesResponse.err # Nil THEN ListMachines_return(<<>>, fleetMachinesResponse.err)
                ELSE IF fleetMachinesResponse.NextPageToken = "" THEN ListMachines_return(acc, Nil)
                ELSE ListMachines_continue(acc, fleetMachinesResponse.NextPageToken)
    /\ UNCHANGED <<lib, op, arg, conc, stack>>

\* mutant of ListMachines_nextPage: the loop also ends on a page without items
ListMachines_nextPage_stopOnEmptyPage ==
    /\ lib = "part_002" /\ pc = "ListMachines_loop"
    /\ \E r \in Responses("machines") :
         LET resp == httpGetResponse(r)
             jsonContent == ReadAll(r)
             nextPageFleetMachinesResponse == Unmarshal(jsonContent.bytes)
             acc == append(machines, nextPageFleetMachinesResponse.Items)
         IN  /\ hist' = Log(hist, Exchange(nextPageURL(url("machines"), nextPageToken), r))
             /\ IF resp.err # Nil THEN ListMachines_return(<<>>, resp.err)
                ELSE IF jsonContent.err # Nil THEN ListMachines_return(<<>>, jsonContent.err)
                ELSE IF nextPageFleetMachinesResponse.err # Nil THEN ListMachines_return(<<>>, nextPageFleetMachinesResponse.err)
                ELSE IF nextPageFleetMachinesResponse.NextPageToken = ""
                        \/ nextPageFleetMachinesResponse.Items = <<>> THEN ListMachines_return(acc, Nil)
                ELSE ListMachines_continue(acc, nextPageFleetMachinesResponse.NextPageToken)
    /\ UNCHANGED <<lib, op, arg, conc, stack>>

\* src/unnamed/part_002 403-426: one iteration of the loop of ListMachines, and its return
ListMachines_nextPage ==
    /\ lib = "part_002" /\ pc = "ListMachines_loop"
    /\ \E r \in Responses("machines") :
         LET resp == httpGetResponse(r)
             jsonContent == ReadAll(r)
             nextPageFleetMachinesResponse == Unmarshal(jsonContent.bytes)
             acc == append(machines, nextPageFleetMachinesResponse.Items)
         IN  /\ hist' = Log(hist, Exchange(nextPageURL(url("machines"), nextPageToken), r))
             /\ IF resp.err # Nil THEN ListMachines_return(<<>>, resp.err)
                ELSE IF jsonContent.err # Nil THEN ListMachines_return(<<>>, jsonContent.err)
                ELSE IF nextPageFleetMachinesResponse.err # Nil THEN ListMachines_return(<<>>, nextPageFleetMachinesResponse.err)
                ELSE IF nextPageFleetMachinesResponse.NextPageToken = "" THEN ListMachines_return(acc, Nil)
                ELSE ListMachines_continue(acc, nextPageFleetMachinesResponse.NextPageToken)
    /\ UNCHANGED <<lib, op, arg, conc, stack>>

\* src/fleet/fleet.go 86-104: ListUnits up to the loop: the first page
fleet_ListUnits_firstPage ==
    /\ lib = "fleet.go" /\ pc = "ListUnits"
    /\ \E r \in Responses("units") :
         LET response == fleet_httpGetResponse(r)
             jsonBytes == ReadAll(r)
             fleetResponse == Unmarshal(jsonBytes.bytes)
             acc == append(units, fleetResponse.Items)
         IN  /\ hist' = Log(hist, Exchange(url("units"), r))
             /\ IF response.fatal THEN Fatal
                ELSE IF jsonBytes.err # Nil THEN Fatal
                ELSE IF fleetResponse.err # Nil THEN Fatal
                ELSE IF fleetResponse.NextPageToken = "" THEN fleet_ListUnits_return(acc)
                ELSE ListUnits_continue(acc, fleetResponse.NextPageToken)
    /\ UNCHANGED <<lib, op, arg, conc, stack>>

\* mutant of fleet_ListUnits_nextPage: the fetch gives up when a page
\* carries the token it was requested with
fleet_ListUnits_nextPage_stopOnRepeat ==
    /\ lib = "fleet.go" /\ pc = "ListUnits_loop"
    /\ \E r \in Responses("units") :
         LET resp == fleet_httpGetResponse(r)
             jsonContent == ReadAll(r)
             nextPageFleetResponse == Unmarshal(jsonContent.bytes)
             acc == append(units, nextPageFleetResponse.Items)
         IN  /\ hist' = Log(hist, Exchange(nextPageURL(url("units"), nextPageToken), r))
             /\ IF resp.fatal THEN Fatal
                ELSE IF jsonContent.err # Nil THEN Fatal
                ELSE IF nextPageFleetResponse.NextPageToken \in {"", nextPageToken}
                     THEN fleet_ListUnits_return(acc)
                ELSE ListUnits_continue(acc, nextPageFleetResponse.NextPageToken)
    /\ UNCHANGED <<lib, op, arg, conc, stack>>

\* src/fleet/fleet.go 105-123: one iteration of the loop of ListUnits, and its return
fleet_ListUnits_nextPage ==
    /\ lib = "fleet.go" /\ pc = "ListUnits_loop"
    /\ \E r \in Responses("units") :
         LET resp == fleet_httpGetResponse(r)
             jsonContent == ReadAll(r)
             nextPageFleetResponse == Unmarshal(jsonContent.bytes)
             acc == append(units, nextPageFleetResponse.Items)
         IN  /\ hist' = Log(hist, Exchange(nextPageURL(url("units"), nextPageToken), r))
             /\ IF resp.fatal THEN Fatal
                ELSE IF jsonContent.err # Nil THEN Fatal
                \* the error of json.Unmarshal is assigned and never looked at
                ELSE IF nextPageFleetResponse.NextPageToken = "" THEN fleet_ListUnits_return(acc)
                ELSE ListUnits_continue(acc, nextPageFleetResponse.NextPageToken)
    /\ UNCHANGED <<lib, op, arg, conc, stack>>

\* src/fleet/fleet.go 210-228: ListUnitStates up to the loop: the first page
fleet_ListUnitStates_firstPage ==
    /\ lib = "fleet.go" /\ pc = "ListUnitStates"
    /\ \E r \in Responses("state") :
         LET response == fleet_httpGetResponse(r)
             jsonBytes == ReadAll(r)
             fleetStateResponse == Unmarshal(jsonBytes.bytes)
             acc == append(unitStates, fleetStateResponse.Items)
         IN  /\ hist' = Log(hist, Exchange(url("state"), r))
             /\ IF response.fatal THEN Fatal
                ELSE IF jsonBytes.err # Nil THEN Fatal
                ELSE IF fleetStateResponse.err # Nil THEN Fatal
                ELSE IF fleetStateResponse.NextPageToken = "" THEN fleet_ListUnitStates_return(acc)
                ELSE ListUnitStates_continue(acc, fleetStateResponse.NextPageToken)
    /\ UNCHANGED <<lib, op, arg, conc, stack>>

\* src/fleet/fleet.go 229-250: one iteration of the loop of ListUnitStates, and its return
fleet_ListUnitStates_nextPage ==
    /\ lib = "fleet.go" /\ pc = "ListUnitStates_loop"
    /\ \E r \in Responses("state") :
         LET resp == fleet_httpGetResponse(r)
             jsonContent == ReadAll(r)
             nextPageFleetStateResponse == Unmarshal(jsonContent.bytes)
             acc == append(unitStates, nextPageFleetStateResponse.Items)
         IN  /\ hist' = Log(hist, Exchange(nextPageURL(url("state"), nextPageToken), r))
             /\ IF resp.fatal THEN Fatal
                ELSE IF jsonContent.err # Nil THEN Fatal
                ELSE IF nextPageFleetStateResponse.err # Nil THEN Fatal
                ELSE IF nextPageFleetStateResponse.NextPageToken = "" THEN fleet_ListUnitStates_return(acc)
                ELSE ListUnitStates_continue(acc, nextPageFleetStateResponse.NextPageToken)
    /\ UNCHANGED <<lib, op, arg, conc, stack>>

\* src/fleet/fleet.go 304-322: ListMachines up to the loop: the first page
fleet_ListMachines_firstPage ==
    /\ lib = "fleet.go" /\ pc = "ListMachines"
    /\ \E r \in Responses("machines") :
         LET response == fleet_httpGetResponse(r)
             jsonBytes == ReadAll(r)
             fleetMachinesResponse == Unmarshal(jsonBytes.bytes)
             acc == append(machines, fleetMachinesResponse.Items)
         IN  /\ hist' = Log(hist, Exchange(url("machines"), r))
             /\ IF response.fatal THEN Fatal
                ELSE IF jsonBytes.err # Nil THEN Fatal
                ELSE IF fleetMachinesResponse.err # Nil THEN Fatal
                ELSE IF fleetMachinesResponse.NextPageToken = "" THEN fleet_ListMachines_return(acc)
                ELSE ListMachines_continue(acc, fleetMachinesResponse.NextPageToken)
    /\ UNCHANGED <<lib, op, arg, conc, stack>>

\* src/fleet/fleet.go 323-343: one iteration of the loop of ListMachines, and its return
fleet_ListMachines_nextPage ==
    /\ lib = "fleet.go" /\ pc = "ListMachines_loop"
    /\ \E r \in Responses("machines") :
         LET resp == fleet_httpGetResponse(r)
             jsonContent == ReadAll(r)
             nextPageFleetMachinesResponse == Unmarshal(jsonContent.bytes)
             acc == append(machines, nextPageFleetMachinesResponse.Items)
         IN  /\ hist' = Log(hist, Exchange(nextPageURL(url("machines"), nextPageToken), r))
             /\ IF resp.fatal THEN Fatal
                ELSE IF jsonContent.err # Nil THEN Fatal
                ELSE IF nextPageFleetMachinesResponse.err # Nil THEN Fatal
                ELSE IF nextPageFleetMachinesResponse.NextPageToken = "" THEN fleet_ListMachines_return(acc)
                ELSE ListMachines_continue(acc, nextPageFleetMachinesResponse.NextPageToken)
    /\ UNCHANGED <<lib, op, arg, conc, stack>>

----------------------------------------------------------------------------
(* The operations on one unit: one request to /units/{name} each *)

\* a function whose only result is an error returns e
ReturnError(e) ==
    /\ Done([NoValue EXCEPT !.err = e])
    /\ calls' = Append(calls, [fn |-> op, unit |-> ZeroUnit, err |-> e])
    /\ UNCHANGED <<units, unitStates, machines, nextPageToken>>

\* fleet.go: return handleError(response.Body), which may end the process
fleet_ReturnError(remote) ==
    IF remote.fatal THEN Fatal ELSE ReturnError(remote.err)

\* mutant of CreateUnit: 200 is taken for success as well
CreateUnit_accepts200 ==
    /\ lib = "part_002" /\ pc = "CreateUnit"
    /\ \E r \in UnitResponses :
         LET resp == httpPutResponse(r)
         IN  /\ hist' = Log(hist, Exchange(unitURL, r))
             /\ IF resp.err # Nil THEN ReturnError(resp.err)
                ELSE IF resp.response.status = 400 THEN ReturnError(handleError(resp.response))
                ELSE IF resp.response.status = 409 THEN ReturnError(handleError(resp.response))
                ELSE IF resp.response.status \notin {200, 201} THEN ReturnError(handleError(resp.response))
                ELSE ReturnError(Nil)
    /\ UNCHANGED <<lib, op, arg, conc, stack>>

\* part_002 CreateUnit: PUT /units/{name} with the desired state and options
CreateUnit ==
    /\ lib = "part_002" /\ pc = "CreateUnit"
    /\ \E r \in UnitResponses :
         LET resp == httpPutResponse(r)
         IN  /\ hist' = Log(hist, Exchange(unitURL, r))
             /\ IF resp.err # Nil THEN ReturnError(resp.err)
                ELSE IF resp.response.status = 400 THEN ReturnError(handleError(resp.response))
                ELSE IF resp.response.status = 409 THEN ReturnError(handleError(resp.response))
                ELSE IF resp.response.status # 201 THEN ReturnError(handleError(resp.response))
                ELSE ReturnError(Nil)
    /\ UNCHANGED <<lib, op, arg, conc, stack>>

\* mutant of Unit_ModifyDesiredState: 200 is taken for success as well
Unit_ModifyDesiredState_accepts200 ==
    /\ lib = "part_002" /\ pc = "Unit.ModifyDesiredState"
    /\ \E r \in UnitResponses :
         LET resp == httpPutResponse(r)
         IN  /\ hist' = Log(hist, Exchange(unitURL, r))
             /\ IF resp.err # Nil THEN ReturnError(resp.err)
                ELSE IF resp.response.status = 400 THEN ReturnError(handleError(resp.response))
                ELSE IF resp.response.status \notin {200, 204} THEN ReturnError(handleError(resp.response))
                ELSE ReturnError(Nil)
    /\ UNCHANGED <<lib, op, arg, conc, stack>>

\* part_002 (unit Unit) ModifyDesiredState: PUT /units/{unit.Name}
Unit_ModifyDesiredState ==
    /\ lib = "part_002" /\ pc = "Unit.ModifyDesiredState"
    /\ \E r \in UnitResponses :
         LET resp == httpPutResponse(r)
         IN  /\ hist' = Log(hist, Exchange(unitURL, r))
             /\ IF resp.err # Nil THEN ReturnError(resp.err)
                ELSE IF resp.response.status = 400 THEN ReturnError(handleError(resp.response))
                ELSE IF resp.response.status # 204 THEN ReturnError(handleError(resp.response))
                ELSE ReturnError(Nil)
    /\ UNCHANGED <<lib, op, arg, conc, stack>>

\* part_002 (unitState UnitState) ModifyDesiredState: PUT /units/{unitState.Name}
UnitState_ModifyDesiredState ==
    /\ lib = "part_002" /\ pc = "UnitState.ModifyDesiredState"
    /\ \E r \in UnitResponses :
         LET resp == httpPutResponse(r)
         IN  /\ hist' = Log(hist, Exchange(unitURL, r))
             /\ IF resp.err # Nil THEN ReturnError(resp.err)
                ELSE IF resp.response.status = 400 THEN ReturnError(handleError(resp.response))
                ELSE IF resp.response.status # 204 THEN ReturnError(handleError(resp.response))
                ELSE ReturnError(Nil)
    /\ UNCHANGED <<lib, op, arg, conc, stack>>

\* mutant of Unit_Destroy: 200 is taken for success as well
Unit_Destroy_accepts200 ==
    /\ lib = "part_002" /\ pc = "Unit.Destroy"
    /\ \E r \in UnitResponses :
         LET resp == httpDeleteResponse(r)
         IN  /\ hist' = Log(hist, Exchange(unitURL, r))
             /\ IF resp.err # Nil THEN ReturnError(resp.err)
                ELSE IF resp.response.status \notin {200, 204} THEN ReturnError(handleError(resp.response))
                ELSE ReturnError(Nil)
    /\ UNCHANGED <<lib, op, arg, conc, stack>>

\* part_002 (unit Unit) Destroy: DELETE /units/{unit.Name}
Unit_Destroy ==
    /\ lib = "part_002" /\ pc = "Unit.Destroy"
    /\ \E r \in UnitResponses :
         LET resp == httpDeleteResponse(r)
         IN  /\ hist' = Log(hist, Exchange(unitURL, r))
             /\ IF resp.err # Nil THEN ReturnError(resp.err)
                ELSE IF resp.response.status # 204 THEN ReturnError(handleError(resp.response))
                ELSE ReturnError(Nil)
    /\ UNCHANGED <<lib, op, arg, conc, stack>>

\* part_002 (unitState UnitState) Destroy: DELETE /units/{unitState.Name}
UnitState_Destroy ==
    /\ lib = "part_002" /\ pc = "UnitState.Destroy"
    /\ \E r \in UnitResponses :
         LET resp == httpDeleteResponse(r)
         IN  /\ hist' = Log(hist, Exchange(unitURL, r))
             /\ IF resp.err # Nil THEN ReturnError(resp.err)
                ELSE IF resp.response.status # 204 THEN ReturnError(handleError(resp.response))
                ELSE ReturnError(Nil)
    /\ UNCHANGED <<lib, op, arg, conc, stack>>

\* fleet.go CreateUnit
fleet_CreateUnit ==
    /\ lib = "fleet.go" /\ pc = "CreateUnit"
    /\ \E r \in UnitResponses :
         LET resp == fleet_httpPutResponse(r)
             remote == fleet_handleError(resp.response)
         IN  /\ hist' = Log(hist, Exchange(unitURL, r))
             /\ IF resp.fatal THEN Fatal
                ELSE IF resp.response.status = 400 THEN fleet_ReturnError(remote)
                ELSE IF resp.response.status = 409 THEN fleet_ReturnError(remote)
                ELSE IF resp.response.status # 201 THEN fleet_ReturnError(remote)
                ELSE ReturnError(Nil)
    /\ UNCHANGED <<lib, op, arg, conc, stack>>

\* fleet.go ModifyUnitDesiredState
fleet_ModifyUnitDesiredState ==
    /\ lib = "fleet.go" /\ pc = "ModifyUnitDesiredState"
    /\ \E r \in UnitResponses :
         LET resp == fleet_httpPutResponse(r)
             remote == fleet_handleError(resp.response)
         IN  /\ hist' = Log(hist, Exchange(unitURL, r))
             /\ IF resp.fatal THEN Fatal
                ELSE IF resp.response.status = 400 THEN fleet_ReturnError(remote)
                ELSE IF resp.response.status # 204 THEN fleet_ReturnError(remote)
                ELSE ReturnError(Nil)
    /\ UNCHANGED <<lib, op, arg, conc, stack>>

\* fleet.go DestroyUnit
fleet_DestroyUnit ==
    /\ lib = "fleet.go" /\ pc = "DestroyUnit"
    /\ \E r \in UnitResponses :
         LET resp == fleet_httpDeleteResponse(r)
             remote == fleet_handleError(resp.response)
         IN  /\ hist' = Log(hist, Exchange(unitURL, r))
             /\ IF resp.fatal THEN Fatal
                ELSE IF resp.response.status # 204 THEN fleet_ReturnError(remote)
                ELSE ReturnError(Nil)
    /\ UNCHANGED <<lib, op, arg, conc, stack>>

\* mutant of GetUnit_return: a unit once reported missing stays missing,
\* without looking at the answer
GetUnit_return_negativeCache(unit, e) ==
    LET cached == calls # <<>> /\ calls[Len(calls)].err # Nil
        u == IF cached THEN ZeroUnit ELSE unit
        er == IF cached THEN [kind |-> "cached", code |-> 0, msg |-> ""] ELSE e
    IN  /\ Done([NoValue EXCEPT !.unit = u, !.err = er])
        /\ calls' = Append(calls, [fn |-> op, unit |-> u, err |-> er])
        /\ UNCHANGED <<units, unitStates, machines, nextPageToken>>

\* GetUnit returns its two results, unit and err
GetUnit_return(unit, e) ==
    /\ Done([NoValue EXCEPT !.unit = unit, !.err = e])
    /\ calls' = Append(calls, [fn |-> op, unit |-> unit, err |-> e])
    /\ UNCHANGED <<units, unitStates, machines, nextPageToken>>

\* part_002 GetUnit: GET /units/{name}
GetUnit ==
    /\ lib = "part_002" /\ pc = "GetUnit"
    /\ \E r \in UnitResponses :
         LET resp == httpGetResponse(r)
             jsonBytes == ReadAll(resp.response)
             decoded == UnmarshalUnit(jsonBytes.bytes)
         IN  /\ hist' = Log(hist, Exchange(unitURL, r))
             /\ IF resp.err # Nil THEN GetUnit_return(ZeroUnit, resp.err)
                ELSE IF resp.response.status = 404
                     THEN GetUnit_return(ZeroUnit, handleError(resp.response))
                ELSE IF resp.response.status # 200
                     THEN GetUnit_return(ZeroUnit, handleError(resp.response))
                ELSE IF jsonBytes.err # Nil THEN GetUnit_return(ZeroUnit, jsonBytes.err)
                ELSE IF decoded.err # Nil THEN GetUnit_return(ZeroUnit, decoded.err)
                ELSE GetUnit_return(decoded.unit, decoded.err)
    /\ UNCHANGED <<lib, op, arg, conc, stack>>

\* fleet.go GetUnit: the error of json.Unmarshal is assigned and the
\* function returns unit, nil
fleet_GetUnit ==
    /\ lib = "fleet.go" /\ pc = "GetUnit"
    /\ \E r \in UnitResponses :
         LET resp == fleet_httpGetResponse(r)
             remote == fleet_handleError(resp.response)
             jsonBytes == ReadAll(resp.response)
             decoded == UnmarshalUnit(jsonBytes.bytes)
         IN  /\ hist' = Log(hist, Exchange(unitURL, r))
             /\ IF resp.fatal THEN Fatal
                ELSE IF resp.response.status = 404
                     THEN IF remote.fatal THEN Fatal ELSE GetUnit_return(ZeroUnit, remote.err)
                ELSE IF resp.response.status # 200
                     THEN IF remote.fatal THEN Fatal ELSE GetUnit_return(ZeroUnit, remote.err)
                ELSE IF jsonBytes.err # Nil THEN Fatal
                ELSE GetUnit_return(decoded.unit, Nil)
    /\ UNCHANGED <<lib, op, arg, conc, stack>>

\* the caller calls GetUnit once more, for the same unit
GetUnit_again ==
    /\ op = "GetUnit" /\ pc = "done"
    /\ Len(calls) < MaxCalls
    /\ pc' = "GetUnit"
    /\ ret' = NoValue
    /\ UNCHANGED <<lib, op, arg, units, unitStates, machines, nextPageToken, hist, calls, conc, stack>>

----------------------------------------------------------------------------
(* Concurrent calls of the part_002 revision *)

\* var port = 49153
ServicePort == 49153

Procs == 1..NProcs

\* the operations the concurrent callers invoke: a paginated fetch, a
\* correlation and a mutation
ConcOps == {"ListUnits", "ListUnitsByName", "CreateUnit"}

\* a caller that has not called yet
IdleCaller == [op |-> "none", arg |-> <<>>, pc |-> "idle", ret |-> NoValue]

\* the named result units and the local nextPageToken of a call, zeroed
ZeroFrame == [units |-> <<>>, nextPageToken |-> ""]

\* the services whose answer depends on the request alone: one answer to
\* GET /units, one to GET /units?nextPageToken=t1, one to PUT /units/{name};
\* the second page ends the chain
Servers ==
    [first : {PageBody("t1", <<Unit(webTemplate), Unit(web1)>>), PageBody("", <<Unit(web1)>>),
              TransportFailure, EnvelopeBody(500), SyntaxBody},
     second : {PageBody("", <<Unit(web2), Unit(db1)>>), TransportFailure, SyntaxBody,
               ReadFailure},
     unit : {NoJSONBody(201), ErrorBody(409, 409, "boom"), TransportFailure},
     mode : {"function"}, chain : {NoChain}]

\* fmt.Sprintf("http://%s:%d/fleet/%s/...", host, port, apiVersion, ...)
concURL(u) == [port |-> port, apiVersion |-> apiVersion, ep |-> u.ep, tok |-> u.tok]

\* the answer of the service s to the request of u
Serve(s, u) ==
    IF u.port # ServicePort \/ u.apiVersion # "v1" THEN TransportFailure
    ELSE IF u.ep = "units/{name}" THEN s.unit
    ELSE IF u.tok = "" THEN s.first
    ELSE s.second

\* the exchange of caller p recorded in hist
ConcExchange(p, u, r) == [ep |-> u.ep, tok |-> u.tok, resp |-> r, proc |-> p]

\* mutant of frame: units and nextPageToken are package variables, one
\* for all calls
frame_package(p) == 1

\* the named results and the locals of a call are the call's own
frame(p) == p

\* the caller p invokes operation o
conc_Call(p) ==
    /\ procs[p].pc = "idle"
    /\ \E o \in ConcOps :
         \E a \in (IF o \in ByNameOps THEN {web}
                   ELSE IF o \in UnitOps THEN {web1} ELSE {<<>>}) :
            procs' = [procs EXCEPT ![p] =
                         [op |-> o, arg |-> a, ret |-> NoValue,
                          pc |-> IF o \in UnitOps THEN o ELSE "ListUnits"]]
    /\ frames' = [frames EXCEPT ![frame(p)] = ZeroFrame]
    /\ UNCHANGED <<lib, op, arg, pc, units, unitStates, machines, nextPageToken,
                   hist, calls, ret, port, apiVersion, server, stack>>

\* ListUnits of caller p returns (u, e), to ListUnitsByName or to the caller
conc_ListUnits_return(p, u, e) ==
    /\ procs' = [procs EXCEPT ![p].pc = "done",
                              ![p].ret = IF procs[p].op = "ListUnitsByName"
                                         THEN ListUnitsByName(u, e, procs[p].arg)
                                         ELSE [NoValue EXCEPT !.units = u, !.err = e]]
    /\ frames' = [frames EXCEPT ![frame(p)].units = u]

\* the loop of ListUnits of caller p goes on
conc_ListUnits_continue(p, acc, tok) ==
    /\ procs' = [procs EXCEPT ![p].pc = "ListUnits_loop"]
    /\ frames' = [frames EXCEPT ![frame(p)] = [units |-> acc, nextPageToken |-> tok]]

\* part_002 ListUnits, first page, run by caller p
conc_ListUnits_firstPage(p) ==
    /\ procs[p].pc = "ListUnits"
    /\ LET u == concURL(url("units"))
           r == Serve(server, u)
           response == httpGetResponse(r)
           jsonBytes == ReadAll(r)
           fleetResponse == Unmarshal(jsonBytes.bytes)
           acc == append(frames[frame(p)].units, fleetResponse.Items)
       IN  /\ hist' = Log(hist, ConcExchange(p, u, r))
           /\ IF response.err # Nil THEN conc_ListUnits_return(p, <<>>, response.err)
              ELSE IF jsonBytes.err # Nil THEN conc_ListUnits_return(p, <<>>, jsonBytes.err)
              ELSE IF fleetResponse.err # Nil THEN conc_ListUnits_return(p, <<>>, fleetResponse.err)
              ELSE IF fleetResponse.NextPageToken = "" THEN conc_ListUnits_return(p, acc, Nil)
              ELSE conc_ListUnits_continue(p, acc, fleetResponse.NextPageToken)
    /\ UNCHANGED <<lib, op, arg, pc, units, unitStates, machines, nextPageToken,
                   calls, ret, port, apiVersion, server, stack>>

\* part_002 ListUnits, one iteration of the loop, run by caller p
conc_ListUnits_nextPage(p) ==
    /\ procs[p].pc = "ListUnits_loop"
    /\ LET u == concURL(nextPageURL(url("units"), frames[frame(p)].nextPageToken))
           r == Serve(server, u)
           resp == httpGetResponse(r)
           jsonContent == ReadAll(r)
           nextPageFleetResponse == Unmarshal(jsonContent.bytes)
           acc == append(frames[frame(p)].units, nextPageFleetResponse.Items)
       IN  /\ hist' = Log(hist, ConcExchange(p, u, r))
           /\ IF resp.err # Nil THEN conc_ListUnits_return(p, <<>>, resp.err)
              ELSE IF jsonContent.err # Nil THEN conc_ListUnits_return(p, <<>>, jsonContent.err)
              ELSE IF nextPageFleetResponse.NextPageToken = "" THEN conc_ListUnits_return(p, acc, Nil)
              ELSE conc_ListUnits_continue(p, acc, nextPageFleetResponse.NextPageToken)
    /\ UNCHANGED <<lib, op, arg, pc, units, unitStates, machines, nextPageToken,
                   calls, ret, port, apiVersion, server, stack>>

\* part_002 CreateUnit, run by caller p
conc_CreateUnit(p) ==
    /\ procs[p].pc = "CreateUnit"
    /\ LET u == concURL(unitURL)
           r == Serve(server, u)
           resp == httpPutResponse(r)
           e == IF resp.err # Nil THEN resp.err
                ELSE IF resp.response.status = 400 THEN handleError(resp.response)
                ELSE IF resp.response.status = 409 THEN handleError(resp.response)
                ELSE IF resp.response.status # 201 THEN handleError(resp.response)
                ELSE Nil
       IN  /\ hist' = Log(hist, ConcExchange(p, u, r))
           /\ procs' = [procs EXCEPT ![p].pc = "done",
                                     ![p].ret = [NoValue EXCEPT !.err = e]]
    /\ UNCHANGED <<lib, op, arg, pc, units, unitStates, machines, nextPageToken,
                   calls, ret, port, apiVersion, server, frames, stack>>

----------------------------------------------------------------------------
(* Package docker: the revisions part_000 and docker.go *)

DockerLibs == {"part_000", "docker.go"}
DockerOps == {"ListContainers", "RemoveContainer", "ListImages", "CreateImage", "RemoveImage"}

Container(id) == [ID |-> id]
Image(id) == [ID |-> id]

\* what a call of package docker returns
DockerNoValue == [containers |-> <<>>, images |-> <<>>, err |-> Nil]

\* the error made by fmt.Errorf; code is the status the text starts with, 0
\* where the text names none
DockerError(code, text) == [kind |-> "docker", code |-> code, msg |-> text]

\* the two phrases RemoveImage looks for in the body, word by word
UsedByRunning == <<"image", "is", "being", "used", "by", "running", "container">>
MultipleRepos == <<"image", "is", "referenced", "in", "multiple", "repositories">>

\* the texts the daemon may send with a status; what ioutil.ReadAll
\* delivers is this text whether or not it ends with an error
BodyTexts ==
    {<<>>, <<"conflict">>,
     <<"conflict:">> \o UsedByRunning \o <<"abc">>,
     <<"conflict:">> \o MultipleRepos,
     MultipleRepos \o <<";">> \o UsedByRunning}

DockerStatuses == {200, 204, 400, 401, 404, 409, 500}

\* a response of the daemon: whether the request was transported, the
\* status, whether the body can be read, and the body: a JSON list of
\* items, or a text
DockerResponse(conn, status, read, kind, items, text) ==
    [conn |-> conn, status |-> status, read |-> read, kind |-> kind,
     items |-> items, text |-> text]

NoDockerResponse == DockerResponse("fail", 0, "ok", "none", <<>>, <<>>)
TextBody(status, read, text) == DockerResponse("ok", status, read, "text", <<>>, text)
ListBody(status, items) == DockerResponse("ok", status, "ok", "list", items, <<>>)
NoListBody(status) == DockerResponse("ok", status, "ok", "syntax", <<>>, <<>>)
UnreadBody(status) == DockerResponse("ok", status, "fail", "none", <<>>, <<>>)

\* what the daemon may answer to the request of operation o
DockerResponses(o) ==
    {NoDockerResponse} \cup
    (CASE o = "RemoveImage" ->
            {TextBody(st, rd, b) : st \in DockerStatuses, rd \in {"ok", "fail"}, b \in BodyTexts}
       [] o \in {"RemoveContainer", "CreateImage"} ->
            {TextBody(st, "ok", <<>>) : st \in DockerStatuses}
       [] o = "ListContainers" ->
            {ListBody(st, is) : st \in DockerStatuses, is \in {<<>>, <<Container("c1")>>}}
            \cup {NoListBody(st) : st \in DockerStatuses}
            \cup {UnreadBody(st) : st \in DockerStatuses}
       [] o = "ListImages" ->
            {ListBody(st, is) : st \in DockerStatuses, is \in {<<>>, <<Image("i1")>>}}
            \cup {NoListBody(st) : st \in DockerStatuses}
            \cup {UnreadBody(st) : st \in DockerStatuses})

\* json.Unmarshal(jsonBytes, &containers) or (jsonBytes, &images)
UnmarshalList(body) ==
    IF body.kind = "list" THEN [err |-> Nil, items |-> body.items]
    ELSE [err |-> ErrDecode, items |-> <<>>]

\* the exchange recorded in hist: the request sent and the response
DockerExchange(x) ==
    [method |-> x.request.method, ep |-> x.request.ep, query |-> x.request.query,
     resp |-> x.response]

\* part_000 doHTTPResponse: a request with the method given
docker_doHTTPResponse(method, u, queryStringParams, r) ==
    [request |-> [method |-> method, ep |-> u, query |-> queryStringParams],
     response |-> r,
     err |-> IF r.conn = "fail" THEN ErrTransport ELSE Nil]

\* part_000 httpGetResponse
docker_httpGetResponse(u, queryStringParams, r) ==
    docker_doHTTPResponse("DELETE", u, queryStringParams, r)

\* part_000 httpPostRequest
docker_httpPostRequest(u, queryStringParams, r) ==
    docker_doHTTPResponse("DELETE", u, queryStringParams, r)

\* part_000 httpDeleteResponse
docker_httpDeleteResponse(u, queryStringParams, r) ==
    docker_doHTTPResponse("DELETE", u, queryStringParams, r)

\* docker.go doHTTPResponse: http.NewRequest(http.MethodDelete, ...) whatever
\* the method given; an error of client.Do ends the process
dockergo_doHTTPResponse(method, u, queryStringParams, r) ==
    [request |-> [method |-> "DELETE", ep |-> u, query |-> queryStringParams],
     response |-> r,
     fatal |-> r.conn = "fail"]

\* docker.go httpGetResponse
dockergo_httpGetResponse(u, queryStringParams, r) ==
    dockergo_doHTTPResponse("GET", u, queryStringParams, r)

\* docker.go httpPostRequest
dockergo_httpPostRequest(u, queryStringParams, r) ==
    dockergo_doHTTPResponse("POST", u, queryStringParams, r)

\* docker.go httpDeleteResponse
dockergo_httpDeleteResponse(u, queryStringParams, r) ==
    dockergo_doHTTPResponse("DELETE", u, queryStringParams, r)

\* log.Fatal in package docker
docker_Fatal ==
    /\ pc' = "aborted"
    /\ UNCHANGED ret

\* part_000 ListContainers, with getContainers
docker_ListContainers ==
    /\ lib = "part_000" /\ pc = "ListContainers"
    /\ \E r \in DockerResponses("ListContainers"), all \in BOOLEAN :
         LET x == docker_httpGetResponse("containers/json", [all |-> all], r)
             jsonBytes == ReadAll(x.response)
             decoded == UnmarshalList(jsonBytes.bytes)
         IN  /\ hist' = Log(hist, DockerExchange(x))
             /\ IF x.err # Nil THEN Done([DockerNoValue EXCEPT !.err = x.err])
                ELSE IF jsonBytes.err # Nil THEN docker_Fatal
                ELSE IF decoded.err # Nil THEN docker_Fatal
                ELSE Done([DockerNoValue EXCEPT !.containers = decoded.items])
    /\ UNCHANGED <<lib, op, arg, units, unitStates, machines, nextPageToken, calls, conc, stack>>

\* mutant of docker_RemoveContainer: every status but 200 and 204 is an error
docker_RemoveContainer_strict ==
    /\ lib = "part_000" /\ pc = "RemoveContainer"
    /\ \E r \in DockerResponses("RemoveContainer"), deleteVolumes \in BOOLEAN, force \in BOOLEAN :
         LET x == docker_httpDeleteResponse("containers/{nameOrID}",
                                            [v |-> deleteVolumes, force |-> force], r)
             status == x.response.status
         IN  /\ hist' = Log(hist, DockerExchange(x))
             /\ IF x.err # Nil THEN Done([DockerNoValue EXCEPT !.err = x.err])
                ELSE IF status \notin {200, 204}
                     THEN Done([DockerNoValue EXCEPT !.err = DockerError(status, "not removed")])
                ELSE Done(DockerNoValue)
    /\ UNCHANGED <<lib, op, arg, units, unitStates, machines, nextPageToken, calls, conc, stack>>

\* part_000 RemoveContainer
docker_RemoveContainer ==
    /\ lib = "part_000" /\ pc = "RemoveContainer"
    /\ \E r \in DockerResponses("RemoveContainer"), deleteVolumes \in BOOLEAN, force \in BOOLEAN :
         LET x == docker_httpDeleteResponse("containers/{nameOrID}",
                                            [v |-> deleteVolumes, force |-> force], r)
             status == x.response.status
         IN  /\ hist' = Log(hist, DockerExchange(x))
             /\ IF x.err # Nil THEN Done([DockerNoValue EXCEPT !.err = x.err])
                ELSE IF status = 400
                     THEN Done([DockerNoValue EXCEPT !.err = DockerError(status, "One of the supplied paramaters was bad")])
                ELSE IF status = 404
                     THEN Done([DockerNoValue EXCEPT !.err = DockerError(status, "didn't exist")])
                ELSE IF status = 409
                     THEN Done([DockerNoValue EXCEPT !.err = DockerError(status, "There was a conflict")])
                ELSE IF status = 500
                     THEN Done([DockerNoValue EXCEPT !.err = DockerError(status, "There was a server error")])
                ELSE Done(DockerNoValue)
    /\ UNCHANGED <<lib, op, arg, units, unitStates, machines, nextPageToken, calls, conc, stack>>

\* part_000 ListImages
docker_ListImages ==
    /\ lib = "part_000" /\ pc = "ListImages"
    /\ \E r \in DockerResponses("ListImages"), all \in BOOLEAN :
         LET x == docker_httpGetResponse("images/json", [all |-> all], r)
             jsonBytes == ReadAll(x.response)
             decoded == UnmarshalList(jsonBytes.bytes)
         IN  /\ hist' = Log(hist, DockerExchange(x))
             /\ IF x.err # Nil THEN docker_Fatal
                ELSE IF jsonBytes.err # Nil THEN docker_Fatal
                ELSE IF decoded.err # Nil THEN docker_Fatal
                ELSE Done([DockerNoValue EXCEPT !.images = decoded.items])
    /\ UNCHANGED <<lib, op, arg, units, unitStates, machines, nextPageToken, calls, conc, stack>>

\* part_000 CreateImage
docker_CreateImage ==
    /\ lib = "part_000" /\ pc = "CreateImage"
    /\ \E r \in DockerResponses("CreateImage") :
         LET x == docker_httpPostRequest("images/create", [fromImage |-> "busybox"], r)
         IN  /\ hist' = Log(hist, DockerExchange(x))
             /\ IF x.err # Nil THEN Done([DockerNoValue EXCEPT !.err = x.err])
                ELSE IF x.response.status # 200
                     THEN Done([DockerNoValue EXCEPT !.err = DockerError(0, "Failed to start container")])
                ELSE Done(DockerNoValue)
    /\ UNCHANGED <<lib, op, arg, units, unitStates, machines, nextPageToken, calls, conc, stack>>

\* what the outermost of n waiting invocations of RemoveImage returns when
\* the invocation inside them returns e: each maps an error to its own
RECURSIVE RemoveImage_unwind(_, _)
RemoveImage_unwind(n, e) ==
    IF n = 0 THEN e
    ELSE RemoveImage_unwind(n - 1,
                            IF e # Nil THEN DockerError(409, "There was a error trying to remove")
                            ELSE Nil)

\* part_000 RemoveImage: the request of the innermost invocation and what
\* follows it, up to the next request or the return of the outermost
docker_RemoveImage ==
    /\ lib = "part_000" /\ pc = "RemoveImage"
    /\ \E r \in DockerResponses("RemoveImage") :
         LET top == stack[Len(stack)]
             x == docker_httpDeleteResponse("images/{image}",
                                            [force |-> top.force, noprune |-> top.noPrune], r)
             status == x.response.status
             bodyString == ReadAll(x.response).bytes.text
             again == /\ x.err = Nil /\ status = 409
                      /\ ~Contains(bodyString, UsedByRunning)
                      /\ Contains(bodyString, MultipleRepos)
             e == IF x.err # Nil THEN x.err
                  ELSE IF status = 404 THEN DockerError(status, "didn't exist")
                  ELSE IF status = 409
                       THEN IF Contains(bodyString, UsedByRunning) THEN Nil
                            ELSE DockerError(status, "There was a conflict")
                  ELSE IF status = 500 THEN DockerError(status, "There was an error")
                  ELSE Nil
         IN  /\ hist' = Log(hist, DockerExchange(x))
             /\ IF again
                THEN \* err := RemoveImage(host, image, true, false)
                     /\ Len(stack) < MaxDepth
                     /\ stack' = Append(stack, [force |-> TRUE, noPrune |-> FALSE])
                     /\ UNCHANGED <<pc, ret>>
                ELSE /\ stack' = <<>>
                     /\ Done([DockerNoValue EXCEPT !.err = RemoveImage_unwind(Len(stack) - 1, e)])
    /\ UNCHANGED <<lib, op, arg, units, unitStates, machines, nextPageToken, calls, conc>>

\* docker.go ListContainers, with getContainers
dockergo_ListContainers ==
    /\ lib = "docker.go" /\ pc = "ListContainers"
    /\ \E r \in DockerResponses("ListContainers"), all \in BOOLEAN :
         LET x == dockergo_httpGetResponse("containers/json", [all |-> all], r)
             jsonBytes == ReadAll(x.response)
             decoded == UnmarshalList(jsonBytes.bytes)
         IN  /\ hist' = Log(hist, DockerExchange(x))
             /\ IF x.fatal THEN docker_Fatal
                ELSE IF jsonBytes.err # Nil THEN docker_Fatal
                ELSE IF decoded.err # Nil THEN docker_Fatal
                ELSE Done([DockerNoValue EXCEPT !.containers = decoded.items])
    /\ UNCHANGED <<lib, op, arg, units, unitStates, machines, nextPageToken, calls, conc, stack>>

\* docker.go RemoveContainer
dockergo_RemoveContainer ==
    /\ lib = "docker.go" /\ pc = "RemoveContainer"
    /\ \E r \in DockerResponses("RemoveContainer"), deleteVolumes \in BOOLEAN, force \in BOOLEAN :
         LET x == dockergo_httpDeleteResponse("containers/{nameOrID}",
                                              [v |-> deleteVolumes, force |-> force], r)
             status == x.response.status
         IN  /\ hist' = Log(hist, DockerExchange(x))
             /\ IF x.fatal THEN docker_Fatal
                ELSE IF status = 400
                     THEN Done([DockerNoValue EXCEPT !.err = DockerError(0, "One of the supplied paramaters was bad")])
                ELSE IF status = 404
                     THEN Done([DockerNoValue EXCEPT !.err = DockerError(0, "didn't exist")])
                ELSE IF status = 409
                     THEN Done([DockerNoValue EXCEPT !.err = DockerError(0, "There was a conflict")])
                ELSE IF status = 500
                     THEN Done([DockerNoValue EXCEPT !.err = DockerError(0, "There was a server error")])
                ELSE Done(DockerNoValue)
    /\ UNCHANGED <<lib, op, arg, units, unitStates, machines, nextPageToken, calls, conc, stack>>

\* docker.go ListImages
dockergo_ListImages ==
    /\ lib = "docker.go" /\ pc = "ListImages"
    /\ \E r \in DockerResponses("ListImages"), all \in BOOLEAN :
         LET x == dockergo_httpGetResponse("images/json", [all |-> all], r)
             jsonBytes == ReadAll(x.response)
             decoded == UnmarshalList(jsonBytes.bytes)
         IN  /\ hist' = Log(hist, DockerExchange(x))
             /\ IF x.fatal THEN docker_Fatal
                ELSE IF jsonBytes.err # Nil THEN docker_Fatal
                ELSE IF decoded.err # Nil THEN docker_Fatal
                ELSE Done([DockerNoValue EXCEPT !.images = decoded.items])
    /\ UNCHANGED <<lib, op, arg, units, unitStates, machines, nextPageToken, calls, conc, stack>>

\* docker.go CreateImage
dockergo_CreateImage ==
    /\ lib = "docker.go" /\ pc = "CreateImage"
    /\ \E r \in DockerResponses("CreateImage") :
         LET x == dockergo_httpPostRequest("images/create", [fromImage |-> "busybox"], r)
         IN  /\ hist' = Log(hist, DockerExchange(x))
             /\ IF x.fatal THEN docker_Fatal
                ELSE IF x.response.status # 200
                     THEN Done([DockerNoValue EXCEPT !.err = DockerError(0, "Failed to start container")])
                ELSE Done(DockerNoValue)
    /\ UNCHANGED <<lib, op, arg, units, unitStates, machines, nextPageToken, calls, conc, stack>>

\* docker.go RemoveImage
dockergo_RemoveImage ==
    /\ lib = "docker.go" /\ pc = "RemoveImage"
    /\ \E r \in DockerResponses("RemoveImage") :
         LET top == stack[Len(stack)]
             x == dockergo_httpDeleteResponse("images/{image}",
                                              [force |-> top.force, noprune |-> top.noPrune], r)
             status == x.response.status
         IN  /\ hist' = Log(hist, DockerExchange(x))
             /\ stack' = <<>>
             /\ IF x.fatal THEN docker_Fatal
                ELSE IF status = 404
                     THEN Done([DockerNoValue EXCEPT !.err = DockerError(0, "didn't exist")])
                ELSE IF status = 409
                     THEN Done([DockerNoValue EXCEPT !.err = DockerError(0, "There was a conflict")])
                ELSE IF status = 500
                     THEN Done([DockerNoValue EXCEPT !.err = DockerError(0, "There was an error")])
                ELSE Done(DockerNoValue)
    /\ UNCHANGED <<lib, op, arg, units, unitStates, machines, nextPageToken, calls, conc>>

----------------------------------------------------------------------------
(* Specification *)

Ops == ListOps \cup ByNameOps \cup {"GetStateOfFleet"} \cup UnitOps

\* the operations revision l of the package has
OpsOf(l) ==
    IF l = "part_002"
    THEN Ops \ {"ModifyUnitDesiredState", "DestroyUnit"}
    ELSE Ops \ {"Unit.ModifyDesiredState", "UnitState.ModifyDesiredState",
                "Unit.Destroy", "UnitState.Destroy"}

\* the first request of operation o is issued by
Entry(o) ==
    CASE o \in {"ListUnits", "ListUnitsByName", "GetStateOfFleet"} -> "ListUnits"
      [] o \in {"ListUnitStates", "ListUnitStatesByName"} -> "ListUnitStates"
      [] o = "ListMachines" -> "ListMachines"
      [] o \in UnitOps -> o

Init ==
    /\ lib \in Libs
    /\ op = "none"
    /\ arg = <<>>
    /\ pc = "idle"
    /\ units = <<>> /\ unitStates = <<>> /\ machines = <<>>
    /\ nextPageToken = ""
    /\ hist = <<>>
    /\ calls = <<>>
    /\ ret = NoValue
    /\ port = ServicePort
    /\ apiVersion = "v1"
    /\ server = [first |-> TransportFailure, second |-> TransportFailure,
                 unit |-> TransportFailure, mode |-> "free", chain |-> NoChain]
    /\ procs = [p \in Procs |-> IdleCaller]
    /\ frames = [p \in Procs |-> ZeroFrame]
    /\ stack = <<>>

\* the caller invokes operation o, with a name for the operations by name
Call ==
    /\ pc = "idle"
    /\ \E o \in OpsOf(lib) :
         /\ op' = o
         /\ arg' \in (IF o \in ByNameOps THEN {web, db}
                     ELSE IF o \in UnitOps THEN {web1} ELSE {<<>>})
         /\ pc' = Entry(o)
    /\ UNCHANGED <<lib, units, unitStates, machines, nextPageToken, hist, calls, ret, conc, stack>>

Next ==
    \/ Call
    \/ ListUnits_firstPage
    \/ ListUnits_nextPage
    \/ ListUnitStates_firstPage
    \/ ListUnitStates_nextPage
    \/ ListMachines_firstPage
    \/ ListMachines_nextPage
    \/ fleet_ListUnits_firstPage
    \/ fleet_ListUnits_nextPage
    \/ fleet_ListUnitStates_firstPage
    \/ fleet_ListUnitStates_nextPage
    \/ fleet_ListMachines_firstPage
    \/ fleet_ListMachines_nextPage
    \/ CreateUnit
    \/ Unit_ModifyDesiredState
    \/ UnitState_ModifyDesiredState
    \/ Unit_Destroy
    \/ UnitState_Destroy
    \/ GetUnit
    \/ fleet_CreateUnit
    \/ fleet_ModifyUnitDesiredState
    \/ fleet_DestroyUnit
    \/ fleet_GetUnit
    \/ GetUnit_again

Spec == Init /\ [][Next]_vars

\* concurrent callers of the part_002 revision against one service
InitConc ==
    /\ lib = "part_002"
    /\ op = "none"
    /\ arg = <<>>
    /\ pc = "idle"
    /\ units = <<>> /\ unitStates = <<>> /\ machines = <<>>
    /\ nextPageToken = ""
    /\ hist = <<>>
    /\ calls = <<>>
    /\ ret = NoValue
    /\ port = ServicePort
    /\ apiVersion = "v1"
    /\ server \in Servers
    /\ procs = [p \in Procs |-> IdleCaller]
    /\ frames = [p \in Procs |-> ZeroFrame]
    /\ stack = <<>>

NextConc ==
    \E p \in Procs :
        \/ conc_Call(p)
        \/ conc_ListUnits_firstPage(p)
        \/ conc_ListUnits_nextPage(p)
        \/ conc_CreateUnit(p)

SpecConc == InitConc /\ [][NextConc]_vars

\* a paginated fetch against a service that pages by a fixed chain and
\* whose requests all complete
InitChain ==
    /\ lib \in Libs
    /\ op = "none"
    /\ arg = <<>>
    /\ pc = "idle"
    /\ units = <<>> /\ unitStates = <<>> /\ machines = <<>>
    /\ nextPageToken = ""
    /\ hist = <<>>
    /\ calls = <<>>
    /\ ret = NoValue
    /\ port = ServicePort
    /\ apiVersion = "v1"
    /\ \E c \in Chains :
         server = [first |-> TransportFailure, second |-> TransportFailure,
                   unit |-> TransportFailure, mode |-> "chain", chain |-> c]
    /\ procs = [p \in Procs |-> IdleCaller]
    /\ frames = [p \in Procs |-> ZeroFrame]
    /\ stack = <<>>

\* the caller invokes a paginated fetch
Call_fetch ==
    /\ pc = "idle"
    /\ \E o \in ListOps :
         /\ op' = o
         /\ arg' = <<>>
         /\ pc' = Entry(o)
    /\ UNCHANGED <<lib, units, unitStates, machines, nextPageToken, hist, calls, ret, conc, stack>>

NextChain ==
    \/ Call_fetch
    \/ ListUnits_firstPage
    \/ ListUnits_nextPage
    \/ ListUnitStates_firstPage
    \/ ListUnitStates_nextPage
    \/ ListMachines_firstPage
    \/ ListMachines_nextPage
    \/ fleet_ListUnits_firstPage
    \/ fleet_ListUnits_nextPage
    \/ fleet_ListUnitStates_firstPage
    \/ fleet_ListUnitStates_nextPage
    \/ fleet_ListMachines_firstPage
    \/ fleet_ListMachines_nextPage

\* a call that has started goes on until it returns: nothing but the
\* answers of the service holds a fetch back
SpecChain == InitChain /\ [][NextChain]_vars /\ WF_vars(NextChain)

\* one call of an operation of package docker
InitDocker ==
    /\ lib \in DockerLibs
    /\ op = "none"
    /\ arg = <<>>
    /\ pc = "idle"
    /\ units = <<>> /\ unitStates = <<>> /\ machines = <<>>
    /\ nextPageToken = ""
    /\ hist = <<>>
    /\ calls = <<>>
    /\ ret = DockerNoValue
    /\ port = ServicePort
    /\ apiVersion = "v1"
    /\ server = [first |-> TransportFailure, second |-> TransportFailure,
                 unit |-> TransportFailure, mode |-> "free", chain |-> NoChain]
    /\ procs = [p \in Procs |-> IdleCaller]
    /\ frames = [p \in Procs |-> ZeroFrame]
    /\ stack = <<>>

\* the caller invokes operation o of package docker; RemoveImage is given
\* its flags force and noPrune
docker_Call ==
    /\ pc = "idle"
    /\ \E o \in DockerOps :
         /\ op' = o
         /\ pc' = o
         /\ IF o = "RemoveImage"
            THEN \E force \in BOOLEAN, noPrune \in BOOLEAN :
                    stack' = <<[force |-> force, noPrune |-> noPrune]>>
            ELSE stack' = <<>>
    /\ UNCHANGED <<lib, arg, units, unitStates, machines, nextPageToken, hist, calls, ret, conc>>

NextDocker ==
    \/ docker_Call
    \/ docker_ListContainers
    \/ docker_RemoveContainer
    \/ docker_ListImages
    \/ docker_CreateImage
    \/ docker_RemoveImage
    \/ dockergo_ListContainers
    \/ dockergo_RemoveContainer
    \/ dockergo_ListImages
    \/ dockergo_CreateImage
    \/ dockergo_RemoveImage

SpecDocker == InitDocker /\ [][NextDocker]_vars

----------------------------------------------------------------------------
(* What the service served, read off the history *)

Endpoint(o) ==
    CASE o = "ListUnits" -> "units"
      [] o = "ListUnitStates" -> "state"
      [] o = "ListMachines" -> "machines"

\* the list a finished call of a list operation handed to its caller
Result ==
    CASE op = "ListUnits" -> ret.units
      [] op = "ListUnitStates" -> ret.unitStates
      [] op = "ListMachines" -> ret.machines

\* r is a transported, readable 200 response carrying a valid page
WellFormedPage(r) ==
    r.conn = "ok" /\ r.read = "ok" /\ r.status = 200 /\ r.kind = "page"

\* every response so far was a well-formed page
AllWellFormed == \A i \in DOMAIN hist : WellFormedPage(hist[i].resp)

\* the items of the pages of the exchanges h, in page order then in-page order
RECURSIVE ServedItems(_)
ServedItems(h) ==
    IF h = <<>> THEN <<>> ELSE Head(h).resp.items \o ServedItems(Tail(h))

\* the non-empty tokens received so far
NonEmptyTokens == {i \in DOMAIN hist : hist[i].resp.tok # ""}

----------------------------------------------------------------------------
(* C1 *)

\* C1: pagination completeness.  When the service answers a list operation
\* (ListUnits, ListUnitStates, ListMachines) with a chain of well-formed
\* pages, the operation does not abort, and once it has returned it has
\* returned no error and exactly the served items, in page order then
\* in-page order, however the items were split into pages.
C1_PaginationComplete ==
    (op \in ListOps /\ AllWellFormed) =>
        /\ pc # "aborted"
        /\ pc = "done" => (ret.err = Nil /\ Result = ServedItems(hist))

\* three pages of different sizes, the two distinct units interleaved
C1_Witness ==
    /\ op = "ListUnits" /\ pc = "done" /\ AllWellFormed
    /\ Len(hist) = 3
    /\ Len(hist[1].resp.items) = 1 /\ Len(hist[2].resp.items) = 2
    /\ ret.units = <<Unit(db1), Unit(web1), Unit(db1), Unit(web1)>>

----------------------------------------------------------------------------
(* C2 *)

\* C2: pagination termination and request count.  Against well-formed pages
\* a list operation has returned exactly when the last page received
\* carries the empty token, whatever its items; no page before the last one
\* carried the empty token; and the number of GET requests issued by the
\* returned call is 1 + the number of non-empty tokens received.
C2_PaginationTermination ==
    (op \in ListOps /\ AllWellFormed /\ hist # <<>>) =>
        /\ (pc = "done") <=> (hist[Len(hist)].resp.tok = "")
        /\ (pc \in {"ListUnits_loop", "ListUnitStates_loop", "ListMachines_loop"})
               <=> (hist[Len(hist)].resp.tok # "")
        /\ \A i \in 1..(Len(hist) - 1) : hist[i].resp.tok # ""
        /\ pc = "done" => Len(hist) = 1 + Cardinality(NonEmptyTokens)

\* the token sequence t1 -> t2 -> "" took exactly 3 requests, the second
\* page having no items
C2_Witness ==
    /\ op = "ListMachines" /\ pc = "done" /\ AllWellFormed
    /\ Len(hist) = 3
    /\ hist[1].resp.tok = "t1" /\ hist[2].resp.tok = "t2" /\ hist[3].resp.tok = ""
    /\ hist[2].resp.items = <<>>
    /\ hist[3].resp.items # <<>>

----------------------------------------------------------------------------
(* Failures the service can cause *)

TransportFault(r) == r.conn = "fail"
ReadFault(r) == r.conn = "ok" /\ r.read = "fail"
\* the body is not valid JSON of the page shape
DecodeFault(r) ==
    r.conn = "ok" /\ r.read = "ok" /\ r.kind \in {"syntax", "badToken", "badItems"}
\* a non-success status with an error envelope
RemoteFault(r) ==
    r.conn = "ok" /\ r.read = "ok" /\ r.status >= 400 /\ r.kind = "envelope"
Fault(r) == TransportFault(r) \/ ReadFault(r) \/ DecodeFault(r) \/ RemoteFault(r)

\* the positions in hist of the responses that satisfy F
Where(F(_)) == {i \in DOMAIN hist : F(hist[i].resp)}

Min(S) == CHOOSE x \in S : \A y \in S : x <= y
Max(S) == CHOOSE x \in S : \A y \in S : x >= y

----------------------------------------------------------------------------
(* C3 *)

\* C3: snapshot fail-fast.  When GetStateOfFleet has returned and one of
\* the responses it received was a failure (transport, body read, decode
\* or remote error, on any page of any of the three fetches), it returned
\* a non-nil error and three nil collections; when it returned a nil error
\* the triple is the complete served content of the three endpoints.
C3_SnapshotFailFast ==
    (op = "GetStateOfFleet" /\ pc = "done") =>
        /\ Where(Fault) # {} =>
              /\ ret.err # Nil
              /\ ret.units = <<>> /\ ret.unitStates = <<>> /\ ret.machines = <<>>
        /\ ret.err = Nil =>
              /\ ret.units = ServedItems(Requests("units"))
              /\ ret.unitStates = ServedItems(Requests("state"))
              /\ ret.machines = ServedItems(Requests("machines"))

----------------------------------------------------------------------------
(* C4 *)

Rank(ep) ==
    CASE ep = "units" -> 1
      [] ep = "state" -> 2
      [] ep = "machines" -> 3

\* the fetches that returned an error to GetStateOfFleet
FailedCalls == {k \in DOMAIN calls : calls[k].err # Nil}

\* the requests are grouped units, state, machines; a request to a later
\* endpoint is issued only after the fetch before it returned without
\* error; the fetches returned in the order ListUnits, ListUnitStates,
\* ListMachines; the error returned is that of the earliest failed fetch
C4_Ordered ==
    op = "GetStateOfFleet" =>
        /\ \A i, j \in DOMAIN hist : i < j => Rank(hist[i].ep) <= Rank(hist[j].ep)
        /\ \A k \in DOMAIN calls :
              calls[k].fn = <<"ListUnits", "ListUnitStates", "ListMachines">>[k]
        /\ Requests("state") # <<>> => (Len(calls) >= 1 /\ calls[1].err = Nil)
        /\ Requests("machines") # <<>> => (Len(calls) >= 2 /\ calls[2].err = Nil)
        /\ pc = "done" =>
              ret.err = (IF FailedCalls = {} THEN Nil ELSE calls[Min(FailedCalls)].err)

\* once a fetch has failed (returned an error, or ended the process) no
\* further request is issued
C4_NoRequestAfterFailure ==
    (op = "GetStateOfFleet" /\ (FailedCalls # {} \/ pc = "aborted")) => hist' = hist

----------------------------------------------------------------------------
(* C5 *)

\* C5: decode errors are never silently defaulted.  When a list operation
\* has returned and the body of one of its pages (first or follow-up) was
\* not valid JSON of the page shape, it returned the decode error.
C5_DecodeErrorsSurface ==
    (op \in ListOps /\ pc = "done" /\ Where(DecodeFault) # {}) => ret.err = ErrDecode

----------------------------------------------------------------------------
(* C6 *)

\* C6: non-success status on a list endpoint.  When a list operation or
\* GetStateOfFleet has returned and one of its page requests was answered
\* with a non-success status and an error envelope, it returned the remote
\* error carrying the envelope's code and message.
C6_RemoteErrorSurfaces ==
    (op \in ListOps \cup {"GetStateOfFleet"} /\ pc = "done" /\ Where(RemoteFault) # {}) =>
        LET r == hist[Min(Where(RemoteFault))].resp
        IN  ret.err = RemoteError(r.code, r.msg)

----------------------------------------------------------------------------
(* C7 *)

\* C7: no Fleet operation terminates the host process: whatever the
\* service answers, the call is never aborted inside the library.
C7_NoProcessAbort == pc # "aborted"

----------------------------------------------------------------------------
(* Unit names, as the correlation contract reads them *)

\* the string s starts with the string p
StartsWith(s, p) == Len(s) >= Len(p) /\ \A i \in 1..Len(p) : s[i] = p[i]

\* the string s has the characters "@" "." next to each other somewhere
HasAtDot(s) == \E i \in 1..(Len(s) - 1) : s[i] = "@" /\ s[i + 1] = "."

\* the unit u belongs to the base name b
BelongsTo(u, b) == StartsWith(u.Name, b \o <<"@">>)

Range(f) == {f[i] : i \in DOMAIN f}

\* ListUnitsByName has returned after a successful fetch; units holds the
\* fetched list (allUnits)
Correlated == op = "ListUnitsByName" /\ pc = "done" /\ ret.err = Nil

----------------------------------------------------------------------------
(* C8 *)

\* C8: template/instance correlation.  ListUnitsByName(host, name) returns
\* as instances exactly the fetched units whose name starts with name + "@"
\* and does not contain "@.", each once and in fetched order; the template
\* it returns is the zero Unit or a fetched unit of that base name that
\* contains "@.", and is never an element of the instance list.
C8_Correlation ==
    Correlated =>
        /\ ret.units = SelectSeq(units, LAMBDA u : BelongsTo(u, arg) /\ ~HasAtDot(u.Name))
        /\ ret.template \notin Range(ret.units)
        /\ \/ ret.template = ZeroUnit
           \/ \E i \in DOMAIN units :
                 /\ units[i] = ret.template
                 /\ BelongsTo(units[i], arg) /\ HasAtDot(units[i].Name)

\* the example of the specification
C8_Witness ==
    /\ Correlated /\ arg = web
    /\ units = <<Unit(webTemplate), Unit(web1), Unit(web2), Unit(db1)>>
    /\ ret.template = Unit(webTemplate)
    /\ ret.units = <<Unit(web1), Unit(web2)>>

----------------------------------------------------------------------------
(* C9 *)

\* C9: template form.  Among the fetched units of base name B, a unit is
\* treated as template (kept out of the instance list) exactly when its
\* name is B + "@." + suffix; a unit B + "@" + instance whose instance part
\* does not start with "." is in the instance list and is not the template.
C9_TemplateForm ==
    Correlated =>
        \A i \in DOMAIN units :
            BelongsTo(units[i], arg) =>
                IF StartsWith(units[i].Name, arg \o <<"@", ".">>)
                THEN units[i] \notin Range(ret.units)
                ELSE units[i] \in Range(ret.units) /\ ret.template # units[i]

----------------------------------------------------------------------------
(* C10 *)

\* the positions of the fetched units the code treats as templates of arg
Templates == {i \in DOMAIN units : BelongsTo(units[i], arg) /\ HasAtDot(units[i].Name)}

\* C10: duplicate templates.  When several fetched units match the base
\* name and contain "@.", the template returned is the last of them in
\* fetched order (the zero Unit when there is none); none of them is in the
\* instance list, and the instance list is what it would be without them.
C10_DuplicateTemplates ==
    Correlated =>
        /\ ret.template = (IF Templates = {} THEN ZeroUnit ELSE units[Max(Templates)])
        /\ \A i \in Templates : units[i] \notin Range(ret.units)
        /\ LET others == SelectSeq(units, LAMBDA u : ~(BelongsTo(u, arg) /\ HasAtDot(u.Name)))
           IN  ret.units = SelectSeq(others, LAMBDA u : BelongsTo(u, arg))

\* two different templates of web around an instance: the later one wins
C10_Witness ==
    /\ Correlated /\ arg = web
    /\ units = <<Unit(webTemplate), Unit(web1), Unit(webService), Unit(web2)>>
    /\ ret.template = Unit(webService)
    /\ ret.units = <<Unit(web1), Unit(web2)>>

----------------------------------------------------------------------------
(* C11 *)

\* C11: no-match correlation.  When the service serves ListUnitsByName
\* well-formed pages none of whose units has a name starting with
\* name + "@" (possibly no unit at all), the call does not abort and returns
\* the zero template, an empty instance list and no error.
C11_NoMatch ==
    (/\ op = "ListUnitsByName" /\ AllWellFormed
     /\ \A u \in Range(ServedItems(hist)) : ~BelongsTo(u, arg)) =>
        /\ pc # "aborted"
        /\ pc = "done" =>
              (ret.template = ZeroUnit /\ ret.units = <<>> /\ ret.err = Nil)

\* the cluster has units and a template of web, none of db
C11_Witness ==
    /\ op = "ListUnitsByName" /\ pc = "done" /\ AllWellFormed /\ arg = db
    /\ units = <<Unit(webTemplate), Unit(web1), Unit(web2)>>
    /\ ret = NoValue

\* the cluster has no units at all
C11_WitnessEmpty ==
    /\ op = "ListUnitsByName" /\ pc = "done" /\ AllWellFormed
    /\ Len(hist) = 2 /\ units = <<>>
    /\ ret = NoValue

----------------------------------------------------------------------------
(* C12 *)

\* C12: unit-state filtering.  ListUnitStatesByName(host, name) returns
\* exactly the fetched UnitState records whose name starts with name + "@",
\* in fetched order: records of template names (containing "@.") are kept,
\* and so are several records of one name or of one machineID.
C12_UnitStateFilter ==
    (op = "ListUnitStatesByName" /\ pc = "done" /\ ret.err = Nil) =>
        ret.unitStates = SelectSeq(unitStates, LAMBDA s : BelongsTo(s, arg))

\* web@1 runs on two machines, m1 carries three records, one of them of
\* the template name; the record of db@1 is left out
C12_Witness ==
    /\ op = "ListUnitStatesByName" /\ pc = "done" /\ arg = web
    /\ unitStates = <<UnitState(web1, "m1"), UnitState(webTemplate, "m1"),
                      UnitState(db1, "m1"), UnitState(web1, "m2")>>
    /\ ret.unitStates = <<UnitState(web1, "m1"), UnitState(webTemplate, "m1"),
                          UnitState(web1, "m2")>>


----------------------------------------------------------------------------
(* The operations on one unit *)

\* the answer to the request of the call that ran last
Answer == hist[Len(hist)].resp

\* r carries a readable error envelope {"error": {"code", "message"}}
HasEnvelope(r) == r.conn = "ok" /\ r.read = "ok" /\ r.kind = "envelope"

\* An operation of ops whose request was transported returns nil exactly
\* when the status is success; on any other status whose body is a
\* readable error envelope it returns the error of the envelope.
StatusMapping(ops, success) ==
    (op \in ops /\ pc \in {"done", "aborted"}) =>
        /\ (pc = "done" /\ Answer.conn = "ok") =>
                (ret.err = Nil <=> Answer.status = success)
        /\ (Answer.conn = "ok" /\ Answer.status = success) => pc = "done"
        /\ (HasEnvelope(Answer) /\ Answer.status # success) =>
                /\ pc = "done"
                /\ ret.err = RemoteError(Answer.code, Answer.msg)

\* C13: given the request was transported, CreateUnit returns nil if and
\* only if the status is 201; 400, 409 and every other status, 200 and 204
\* included, give a non-nil error, taken from the error envelope of the body.
C13_CreateStatusMapping == StatusMapping(CreateOps, 201)

\* CreateUnit was answered 200 and returned an error
C13_Witness ==
    /\ op \in CreateOps /\ pc = "done"
    /\ Answer.conn = "ok" /\ Answer.status = 200
    /\ ret.err # Nil

\* CreateUnit was answered 409 with an envelope and returned its error
C13_WitnessConflict ==
    /\ op \in CreateOps /\ pc = "done"
    /\ HasEnvelope(Answer) /\ Answer.status = 409
    /\ ret.err = RemoteError(409, "boom")

\* CreateUnit was answered 201 and returned nil
C13_WitnessCreated ==
    /\ op \in CreateOps /\ pc = "done"
    /\ Answer.conn = "ok" /\ Answer.status = 201
    /\ ret.err = Nil


\* C14: Unit.ModifyDesiredState, UnitState.ModifyDesiredState and
\* ModifyUnitDesiredState succeed if and only if the status is 204; 400 and
\* every other status, 200 and 201 included, give a non-nil error.
C14_ModifyStatusMapping == StatusMapping(ModifyOps, 204)

\* Unit.ModifyDesiredState was answered 201 and returned an error
C14_Witness ==
    /\ op = "Unit.ModifyDesiredState" /\ pc = "done"
    /\ Answer.conn = "ok" /\ Answer.status = 201
    /\ ret.err # Nil

\* each of the three operations was answered 204 and returned nil
C14_WitnessUnit ==
    op = "Unit.ModifyDesiredState" /\ pc = "done" /\ Answer.status = 204 /\ ret.err = Nil
C14_WitnessUnitState ==
    op = "UnitState.ModifyDesiredState" /\ pc = "done" /\ Answer.status = 204 /\ ret.err = Nil
C14_WitnessLegacy ==
    op = "ModifyUnitDesiredState" /\ pc = "done" /\ Answer.status = 204 /\ ret.err = Nil

\* C15: Unit.Destroy, UnitState.Destroy and DestroyUnit succeed if and only
\* if the status is 204; every other status gives a non-nil error.
C15_DestroyStatusMapping == StatusMapping(DestroyOps, 204)

\* Unit.Destroy was answered 200 and returned an error
C15_Witness ==
    /\ op = "Unit.Destroy" /\ pc = "done"
    /\ Answer.conn = "ok" /\ Answer.status = 200
    /\ ret.err # Nil

\* each of the three operations was answered 204 and returned nil
C15_WitnessUnit ==
    op = "Unit.Destroy" /\ pc = "done" /\ Answer.status = 204 /\ ret.err = Nil
C15_WitnessUnitState ==
    op = "UnitState.Destroy" /\ pc = "done" /\ Answer.status = 204 /\ ret.err = Nil
C15_WitnessLegacy ==
    op = "DestroyUnit" /\ pc = "done" /\ Answer.status = 404 /\ ret.err = RemoteError(409, "boom")


\* the status on which operation o succeeds
Success(o) ==
    CASE o \in CreateOps -> 201
      [] o \in ModifyOps \cup DestroyOps -> 204
      [] o = "GetUnit" -> 200

\* C16: when an operation returns on a failure status whose body is a
\* readable error envelope, the error it returns carries the code and the
\* message of that envelope unchanged and reads "<code>: <message>"; a
\* non-zero code and a non-empty message never come out as 0 or empty.
C16_RemoteErrorContent ==
    (op \in UnitOps /\ pc = "done" /\ HasEnvelope(Answer) /\ Answer.status # Success(op)) =>
        /\ ret.err.kind = "remote"
        /\ ret.err.code = Answer.code
        /\ ret.err.msg = Answer.msg
        /\ (Answer.code = 409 /\ Answer.msg = "boom") => Error(ret.err) = "409: boom"
        /\ (Answer.code # 0 /\ Answer.msg # "") =>
                Error(ret.err) \notin {"0: ", "0: boom", "409: "}

\* a call answered 500 with the envelope (409, "boom") returned "409: boom"
C16_Witness ==
    /\ op \in UnitOps /\ pc = "done"
    /\ HasEnvelope(Answer) /\ Answer.status = 500
    /\ Answer.code = 409 /\ Answer.msg = "boom"
    /\ Error(ret.err) = "409: boom"

\* a failure status whose body is JSON without an envelope gives "0: "
C16_WitnessNoEnvelope ==
    /\ op \in UnitOps /\ pc = "done"
    /\ Answer.conn = "ok" /\ Answer.kind = "otherJSON" /\ Answer.status = 500
    /\ ret.err.kind = "remote" /\ Error(ret.err) = "0: "


\* r is a transported, readable 200 response whose body decodes as a Unit
DecodesAsUnit(r) ==
    /\ r.conn = "ok" /\ r.status = 200 /\ r.read = "ok"
    /\ r.kind \notin {"badUnit", "syntax"}

\* the Unit in the body of r
UnitOf(r) == IF r.kind = "unit" THEN r.items[1] ELSE ZeroUnit

\* the outcome GetUnit owes to the answer it received
GetUnitOutcome ==
    IF DecodesAsUnit(Answer)
    THEN ret.err = Nil /\ ret.unit = UnitOf(Answer)
    ELSE ret.err # Nil /\ ret.unit = ZeroUnit

\* C17: GetUnit returns the decoded Unit with a nil error if and only if
\* the status is 200 and the body decodes as a Unit; on 404, any other
\* status, a transport failure and an undecodable 200 body it returns the
\* zero Unit with a non-nil error.
C17_GetUnitOutcome ==
    (op = "GetUnit" /\ pc = "done") => GetUnitOutcome


\* the endpoints the paginated fetches read
ListEndpoints == {"units", "state", "machines"}

\* every request to ep but the first follows an answer that could be read
\* and named a next page
OnlyContinuations(ep) ==
    LET R == Requests(ep)
    IN  \A i \in 1..(Len(R) - 1) :
            /\ R[i].resp.conn = "ok"
            /\ R[i].resp.read = "ok"
            /\ R[i].resp.tok # ""

\* C18: no operation repeats a request.  Each call of CreateUnit,
\* ModifyDesiredState, Destroy and GetUnit has issued exactly one request
\* when it ends, whatever the answer; a paginated fetch issues a further
\* request only for the next page a readable answer named, never after a
\* transport, read or decode failure nor after a remote error.
C18_NoRetry ==
    /\ op \in UnitOps =>
            Len(hist) = Len(calls) + (IF pc = "aborted" THEN 1 ELSE 0)
    /\ op \notin UnitOps => \A ep \in ListEndpoints : OnlyContinuations(ep)

\* ListUnits ended on a transport failure of its second request
C18_Witness ==
    /\ op = "ListUnits" /\ pc = "done"
    /\ Len(hist) = 2 /\ hist[2].resp.conn = "fail"
    /\ ret.err = ErrTransport

\* CreateUnit ended on a transport failure after one request
C18_WitnessCreate ==
    /\ op \in CreateOps /\ pc = "done"
    /\ Len(hist) = 1 /\ hist[1].resp.conn = "fail"
    /\ ret.err = ErrTransport

\* a fetch ended on a page that could not be decoded, or on an envelope
C18_WitnessDecode ==
    /\ op \in ListOps /\ pc \in {"done", "aborted"}
    /\ Len(hist) = 2 /\ hist[2].resp.kind \in {"syntax", "envelope"}


C19_WitnessUnit ==
    /\ op = "GetUnit" /\ pc = "done" /\ Len(calls) = 2
    /\ hist[1].resp = hist[2].resp
    /\ calls[1].err = Nil /\ calls[1].unit = Unit(web1)
    /\ calls[2] = calls[1]


----------------------------------------------------------------------------
(* C20 *)

\* what ListUnits returns when it runs alone against the service s: the
\* pages are fetched in a row from the request for tok on
RECURSIVE AloneListUnits(_, _, _, _)
AloneListUnits(s, first, tok, acc) ==
    LET r == Serve(s, [port |-> ServicePort, apiVersion |-> "v1", ep |-> "units", tok |-> tok])
    IN  IF r.conn = "fail" THEN [units |-> <<>>, err |-> ErrTransport]
        ELSE IF r.read = "fail" THEN [units |-> <<>>, err |-> ErrRead]
        ELSE IF first /\ r.kind # "page" /\ r.kind # "envelope"
             THEN [units |-> <<>>, err |-> ErrDecode]
        ELSE IF r.kind \in {"page", "badItems"} /\ r.tok # ""
             THEN AloneListUnits(s, FALSE, r.tok, acc \o r.items)
        ELSE [units |-> IF r.kind \in {"page", "badToken"} THEN acc \o r.items ELSE acc,
              err |-> Nil]

\* what CreateUnit returns when it runs alone against the service s
AloneCreateUnit(s) ==
    IF s.unit.conn = "fail" THEN ErrTransport
    ELSE IF s.unit.status = 201 THEN Nil
    ELSE handleError(s.unit)

\* what operation o with argument a returns when it runs alone
Alone(s, o, a) ==
    LET l == AloneListUnits(s, TRUE, "", <<>>)
    IN  CASE o = "ListUnits" -> [NoValue EXCEPT !.units = l.units, !.err = l.err]
          [] o = "ListUnitsByName" -> ListUnitsByName(l.units, l.err, a)
          [] o = "CreateUnit" -> [NoValue EXCEPT !.err = AloneCreateUnit(s)]

\* every caller that has returned got what its call returns when run alone
C20_Isolated ==
    \A p \in Procs :
        procs[p].pc = "done" => procs[p].ret = Alone(server, procs[p].op, procs[p].arg)

\* no step writes the package variables
C20_NeverWritten == port' = port /\ apiVersion' = apiVersion

\* C20: the operations share no mutable state.  No operation writes port
\* or apiVersion, and whatever the interleaving of concurrent calls against
\* a service whose answers depend on the request alone, each call returns
\* what it returns when run alone.
C20_Stateless == [](C20_Isolated) /\ [][C20_NeverWritten]_vars

\* two fetches of two pages each ran interleaved, request by request, and
\* both returned the four units
C20_Witness ==
    /\ procs[1].pc = "done" /\ procs[2].pc = "done"
    /\ procs[1].op = "ListUnits" /\ procs[2].op = "ListUnitsByName"
    /\ Len(hist) = 4
    /\ hist[1].proc = 1 /\ hist[2].proc = 2 /\ hist[3].proc = 1 /\ hist[4].proc = 2
    /\ procs[1].ret.units = <<Unit(webTemplate), Unit(web1), Unit(web2), Unit(db1)>>
    /\ procs[2].ret.units = <<Unit(web1), Unit(web2)>>
    /\ procs[2].ret.template = Unit(webTemplate)


----------------------------------------------------------------------------
(* C21 *)

\* the service pages by a chain that never reaches the empty token
Endless == server.mode = "chain" /\ ~Ends(server.chain)

\* against an endless chain the fetch has not returned
C21_NeverReturns == Endless => pc \notin {"done", "aborted"}

\* C21: there is no maximum page count.  Against a service that puts a
\* non-empty token on every page, the same token repeated included, a
\* paginated fetch never returns and goes on requesting pages; against a
\* service whose chain reaches the empty token and whose requests all
\* complete, the fetch returns.
C21_UnboundedPagination ==
    /\ [](C21_NeverReturns)
    /\ Endless ~> (Len(hist) = MaxHist)
    /\ (~Endless) ~> (pc = "done")

\* a fetch against a service that repeats the token t1 is still in its
\* loop after MaxHist requests
C21_Witness ==
    /\ Endless /\ server.chain["t1"] = "t1"
    /\ Len(hist) = MaxHist
    /\ pc \in {"ListUnits_loop", "ListUnitStates_loop", "ListMachines_loop"}

\* a fetch against the chain t1, t2, empty returned after three pages
C21_WitnessEnds ==
    /\ server.mode = "chain" /\ Ends(server.chain)
    /\ pc = "done" /\ Len(hist) = 3


----------------------------------------------------------------------------
(* C22 *)

\* the token the fetch decodes from the answer r; "" where nothing is decoded
DecodedToken(r) ==
    IF r.conn = "ok" /\ r.read = "ok" /\ r.kind \in {"page", "badItems"}
    THEN r.tok ELSE ""

\* the requests to ep: the first carries no token, every other one the
\* token of the page received just before it
Continuation(ep) ==
    LET R == Requests(ep)
    IN  /\ R # <<>> => R[1].tok = ""
        /\ \A i \in 1..(Len(R) - 1) :
               /\ DecodedToken(R[i].resp) # ""
               /\ R[i + 1].tok = DecodedToken(R[i].resp)

\* C22: the first request of a paginated fetch goes to the base URL with
\* no token; every follow-up request carries exactly the token decoded from
\* the page received immediately before, so no page is requested before the
\* page before it has been received and decoded.
C22_ContinuationProtocol ==
    op \notin UnitOps => \A ep \in ListEndpoints : Continuation(ep)

\* ListUnitStates received t1, then t2, and asked for t1, then for t2
C22_Witness ==
    /\ op = "ListUnitStates" /\ Len(hist) = 3
    /\ hist[1].resp.tok = "t1" /\ hist[2].resp.tok = "t2"
    /\ hist[1].tok = "" /\ hist[2].tok = "t1" /\ hist[3].tok = "t2"


----------------------------------------------------------------------------
(* C23 *)

\* the request for a follow-up page failed in transport, or its body could
\* not be read, after a page with items had been received
FollowUpFailed ==
    /\ op \in ListOps \cup ByNameOps
    /\ Len(hist) >= 2
    /\ TransportFault(hist[Len(hist)].resp) \/ ReadFault(hist[Len(hist)].resp)
    /\ \E i \in 1..(Len(hist) - 1) : hist[i].resp.items # <<>>

\* C23: when the request for a follow-up page fails in transport, or its
\* body cannot be read, after pages were accumulated, the fetch returns a
\* nil list with that error, and ListUnitsByName and ListUnitStatesByName
\* return the zero template and nil lists with the same error.
C23_NoPartialResult ==
    FollowUpFailed =>
        /\ pc = "done"
        /\ ret.err = (IF TransportFault(hist[Len(hist)].resp) THEN ErrTransport ELSE ErrRead)
        /\ ret.units = <<>> /\ ret.unitStates = <<>> /\ ret.machines = <<>>
        /\ ret.template = ZeroUnit


----------------------------------------------------------------------------
(* C24 *)

\* the method the transport helper of operation o names
MethodOf(o) ==
    CASE o \in {"ListContainers", "ListImages"} -> "GET"
      [] o = "CreateImage" -> "POST"
      [] o \in {"RemoveContainer", "RemoveImage"} -> "DELETE"

\* C24: each operation of package docker sends the HTTP method its
\* transport helper names: ListContainers and ListImages send GET,
\* CreateImage sends POST, RemoveContainer and RemoveImage send DELETE; a
\* list operation never sends a DELETE request.
C24_RequestMethods ==
    op \in DockerOps =>
        \A i \in DOMAIN hist :
            /\ hist[i].method = MethodOf(op)
            /\ op \in {"ListContainers", "ListImages"} => hist[i].method # "DELETE"

----------------------------------------------------------------------------
(* C25 *)

\* the requests of the running call that were re-issued with force=true
ForcedReissues == {i \in DOMAIN hist : i > 1 /\ hist[i].query.force}

\* C25: a call of RemoveImage sends a bounded number of requests, at most
\* one forced re-issue after the first, whatever the server answers, and
\* has returned once the re-issue is answered.
C25_RemoveImageTerminates ==
    op = "RemoveImage" =>
        /\ Len(hist) <= 2
        /\ Cardinality(ForcedReissues) <= 1
        /\ Len(hist) = 2 => pc = "done"

----------------------------------------------------------------------------
(* C26 *)

\* the request of RemoveContainer was transported and answered
RemoveContainerAnswered ==
    /\ op = "RemoveContainer"
    /\ hist # <<>>
    /\ ~TransportFault(hist[1].resp)

\* C26: given the request was transported, RemoveContainer returns a
\* non-nil error exactly when the status is 400, 404, 409 or 500, and nil
\* for every other status, non-success statuses outside that list included.
C26_RemoveContainerStatusMapping ==
    RemoveContainerAnswered =>
        /\ pc = "done"
        /\ Len(hist) = 1
        /\ ret.err # Nil <=> hist[1].resp.status \in {400, 404, 409, 500}

\* RemoveContainer was answered 401 and reported the container as removed
C26_Witness ==
    /\ RemoveContainerAnswered
    /\ pc = "done"
    /\ hist[1].resp.status = 401
    /\ ret.err = Nil

====
